---- MODULE Spec2Model ----
(***************************************************************************)
(* Model of the SEFAZ distribution client (src/app.py): the handler        *)
(* consultar_notas_recebidas and the functions it calls.  Text values      *)
(* (identifier, dates) are sequences of one-character strings; XML         *)
(* documents are records holding the elements the code looks up.           *)
(*                                                                         *)
(*   Spec         one invocation of the handler                            *)
(*   SpecJusta    the same on a sample of the identifiers, where a step    *)
(*                of the handler that can be taken is eventually taken     *)
(*   SpecExtrair  extrair_chaves_manifestacao called on one response body  *)
(*   SpecDocZip   the decoding step of a docZip on the bytes it is given   *)
(*   SpecLote     the docZip loop on two elements, the first of any form,  *)
(*                with an interruption swallowed by the bare except        *)
(*   SpecFinal    one invocation of the handler of src/app_final.py        *)
(*   SpecInfo     extrair_info_nfe called on one document, as it is and    *)
(*                with its namespace declaration removed                   *)
(***************************************************************************)
EXTENDS Integers, Sequences, FiniteSets, TLC

\* ------------------------------------------------------------------------
\* Bounds of the model
\* ------------------------------------------------------------------------
\* largest number of docZip elements in one enumeration response
MaxDocZips == 2
\* largest number of resNFe elements in one enumeration response
MaxResumos == 1
\* number of calls of the key extraction made on one response body
NumChamadas == 2
\* largest number of characters of an XML text given to the docZip codec
MaxTexto == 3

\* ------------------------------------------------------------------------
\* Text helpers
\* ------------------------------------------------------------------------
DigChar == <<"0", "1", "2", "3", "4", "5", "6", "7", "8", "9">>

Digitos == {DigChar[i] : i \in 1..10}

\* the three characters removed by the chained str.replace calls
Pontuacao == {".", "/", "-"}

\* characters that are neither digits nor removed by the cleaning
OutrosChars == {"A", " "}

\* str.replace(c, ''): every occurrence of c is removed, order is kept
Replace(s, c) == SelectSeq(s, LAMBDA x : x # c)

\* required length of the cleaned identifier
CNPJ_LEN == 14

\* a cleaning that forgets the hyphen
CnpjLimpoSemHifen(s) == Replace(Replace(s, "."), "/")

\* cnpj_empresa.replace('.', '').replace('/', '').replace('-', '')
CnpjLimpo(s) == Replace(Replace(Replace(s, "."), "/"), "-")

\* the guard of the validation: `not cnpj_empresa or len(<cleaned>) != 14`
CnpjRejeitado(s) == s = <<>> \/ Len(CnpjLimpo(s)) # CNPJ_LEN

\* ------------------------------------------------------------------------
\* Inputs of one invocation
\* ------------------------------------------------------------------------
\* n digits 1,2,...,9,0,1,...: all positions distinguishable from neighbours
DigitosBase(n) == [i \in 1..n |-> DigChar[(i % 10) + 1]]

Inserir(s, p, c) == SubSeq(s, 1, p) \o <<c>> \o SubSeq(s, p + 1, Len(s))

\* the usual mask XX.XXX.XXX/XXXX-XX
Formatado ==
    LET d == DigitosBase(CNPJ_LEN)
    IN SubSeq(d, 1, 2) \o <<".">> \o SubSeq(d, 3, 5) \o <<".">> \o
       SubSeq(d, 6, 8) \o <<"/">> \o SubSeq(d, 9, 12) \o <<"-">> \o
       SubSeq(d, 13, 14)

\* the punctuation character put at position p: the three take turns
PontuacaoEm(p) == <<".", "/", "-">>[(p % 3) + 1]

\* identifiers: nothing, the usual mask, 13 to 15 digits, the same with one
\* punctuation character at any position, and the same with a letter or a
\* space in front or at the end
CnpjInputs ==
    {<<>>, Formatado}
    \cup {DigitosBase(n) : n \in (CNPJ_LEN - 1)..(CNPJ_LEN + 1)}
    \cup UNION {{Inserir(DigitosBase(n), p, PontuacaoEm(p)) : p \in 0..n} :
                n \in (CNPJ_LEN - 1)..(CNPJ_LEN + 1)}
    \cup UNION {{Inserir(DigitosBase(n), p, c) : p \in {0, n}, c \in OutrosChars} :
                n \in (CNPJ_LEN - 1)..(CNPJ_LEN + 1)}

DataIso1 == <<"2", "0", "2", "5", "-", "0", "9", "-", "0", "1">>
DataIso2 == <<"2", "0", "2", "5", "-", "0", "9", "-", "3", "0">>
DataBr == <<"0", "1", "/", "0", "9", "/", "2", "0", "2", "5">>

DatasInicio == {DataIso1, DataBr}
DatasFim == {DataIso2, DataBr}

DigVal(c) == CHOOSE i \in 0..9 : DigChar[i + 1] = c

RECURSIVE Numero(_)
Numero(s) == IF s = <<>> THEN 0
             ELSE 10 * Numero(SubSeq(s, 1, Len(s) - 1)) + DigVal(s[Len(s)])

TodosDigitos(s) == \A i \in 1..Len(s) : s[i] \in Digitos

\* A character is the string that holds it.  A character that is not a
\* printable ASCII character is written by its code point in hexadecimal,
\* with four digits or more: "U+0660", "U+FF19", "U+0009".
\*
\* the decimal digits of Unicode 14.0, the version Python 3.11 knows, one
\* row per script, each row from the digit zero to the digit nine
DIGITOS_UNICODE_14 ==
    <<<<"0", "1", "2", "3", "4", "5", "6", "7", "8", "9">>,
      <<"U+0660", "U+0661", "U+0662", "U+0663", "U+0664", "U+0665", "U+0666", "U+0667", "U+0668", "U+0669">>,
      <<"U+06F0", "U+06F1", "U+06F2", "U+06F3", "U+06F4", "U+06F5", "U+06F6", "U+06F7", "U+06F8", "U+06F9">>,
      <<"U+07C0", "U+07C1", "U+07C2", "U+07C3", "U+07C4", "U+07C5", "U+07C6", "U+07C7", "U+07C8", "U+07C9">>,
      <<"U+0966", "U+0967", "U+0968", "U+0969", "U+096A", "U+096B", "U+096C", "U+096D", "U+096E", "U+096F">>,
      <<"U+09E6", "U+09E7", "U+09E8", "U+09E9", "U+09EA", "U+09EB", "U+09EC", "U+09ED", "U+09EE", "U+09EF">>,
      <<"U+0A66", "U+0A67", "U+0A68", "U+0A69", "U+0A6A", "U+0A6B", "U+0A6C", "U+0A6D", "U+0A6E", "U+0A6F">>,
      <<"U+0AE6", "U+0AE7", "U+0AE8", "U+0AE9", "U+0AEA", "U+0AEB", "U+0AEC", "U+0AED", "U+0AEE", "U+0AEF">>,
      <<"U+0B66", "U+0B67", "U+0B68", "U+0B69", "U+0B6A", "U+0B6B", "U+0B6C", "U+0B6D", "U+0B6E", "U+0B6F">>,
      <<"U+0BE6", "U+0BE7", "U+0BE8", "U+0BE9", "U+0BEA", "U+0BEB", "U+0BEC", "U+0BED", "U+0BEE", "U+0BEF">>,
      <<"U+0C66", "U+0C67", "U+0C68", "U+0C69", "U+0C6A", "U+0C6B", "U+0C6C", "U+0C6D", "U+0C6E", "U+0C6F">>,
      <<"U+0CE6", "U+0CE7", "U+0CE8", "U+0CE9", "U+0CEA", "U+0CEB", "U+0CEC", "U+0CED", "U+0CEE", "U+0CEF">>,
      <<"U+0D66", "U+0D67", "U+0D68", "U+0D69", "U+0D6A", "U+0D6B", "U+0D6C", "U+0D6D", "U+0D6E", "U+0D6F">>,
      <<"U+0DE6", "U+0DE7", "U+0DE8", "U+0DE9", "U+0DEA", "U+0DEB", "U+0DEC", "U+0DED", "U+0DEE", "U+0DEF">>,
      <<"U+0E50", "U+0E51", "U+0E52", "U+0E53", "U+0E54", "U+0E55", "U+0E56", "U+0E57", "U+0E58", "U+0E59">>,
      <<"U+0ED0", "U+0ED1", "U+0ED2", "U+0ED3", "U+0ED4", "U+0ED5", "U+0ED6", "U+0ED7", "U+0ED8", "U+0ED9">>,
      <<"U+0F20", "U+0F21", "U+0F22", "U+0F23", "U+0F24", "U+0F25", "U+0F26", "U+0F27", "U+0F28", "U+0F29">>,
      <<"U+1040", "U+1041", "U+1042", "U+1043", "U+1044", "U+1045", "U+1046", "U+1047", "U+1048", "U+1049">>,
      <<"U+1090", "U+1091", "U+1092", "U+1093", "U+1094", "U+1095", "U+1096", "U+1097", "U+1098", "U+1099">>,
      <<"U+17E0", "U+17E1", "U+17E2", "U+17E3", "U+17E4", "U+17E5", "U+17E6", "U+17E7", "U+17E8", "U+17E9">>,
      <<"U+1810", "U+1811", "U+1812", "U+1813", "U+1814", "U+1815", "U+1816", "U+1817", "U+1818", "U+1819">>,
      <<"U+1946", "U+1947", "U+1948", "U+1949", "U+194A", "U+194B", "U+194C", "U+194D", "U+194E", "U+194F">>,
      <<"U+19D0", "U+19D1", "U+19D2", "U+19D3", "U+19D4", "U+19D5", "U+19D6", "U+19D7", "U+19D8", "U+19D9">>,
      <<"U+1A80", "U+1A81", "U+1A82", "U+1A83", "U+1A84", "U+1A85", "U+1A86", "U+1A87", "U+1A88", "U+1A89">>,
      <<"U+1A90", "U+1A91", "U+1A92", "U+1A93", "U+1A94", "U+1A95", "U+1A96", "U+1A97", "U+1A98", "U+1A99">>,
      <<"U+1B50", "U+1B51", "U+1B52", "U+1B53", "U+1B54", "U+1B55", "U+1B56", "U+1B57", "U+1B58", "U+1B59">>,
      <<"U+1BB0", "U+1BB1", "U+1BB2", "U+1BB3", "U+1BB4", "U+1BB5", "U+1BB6", "U+1BB7", "U+1BB8", "U+1BB9">>,
      <<"U+1C40", "U+1C41", "U+1C42", "U+1C43", "U+1C44", "U+1C45", "U+1C46", "U+1C47", "U+1C48", "U+1C49">>,
      <<"U+1C50", "U+1C51", "U+1C52", "U+1C53", "U+1C54", "U+1C55", "U+1C56", "U+1C57", "U+1C58", "U+1C59">>,
      <<"U+A620", "U+A621", "U+A622", "U+A623", "U+A624", "U+A625", "U+A626", "U+A627", "U+A628", "U+A629">>,
      <<"U+A8D0", "U+A8D1", "U+A8D2", "U+A8D3", "U+A8D4", "U+A8D5", "U+A8D6", "U+A8D7", "U+A8D8", "U+A8D9">>,
      <<"U+A900", "U+A901", "U+A902", "U+A903", "U+A904", "U+A905", "U+A906", "U+A907", "U+A908", "U+A909">>,
      <<"U+A9D0", "U+A9D1", "U+A9D2", "U+A9D3", "U+A9D4", "U+A9D5", "U+A9D6", "U+A9D7", "U+A9D8", "U+A9D9">>,
      <<"U+A9F0", "U+A9F1", "U+A9F2", "U+A9F3", "U+A9F4", "U+A9F5", "U+A9F6", "U+A9F7", "U+A9F8", "U+A9F9">>,
      <<"U+AA50", "U+AA51", "U+AA52", "U+AA53", "U+AA54", "U+AA55", "U+AA56", "U+AA57", "U+AA58", "U+AA59">>,
      <<"U+ABF0", "U+ABF1", "U+ABF2", "U+ABF3", "U+ABF4", "U+ABF5", "U+ABF6", "U+ABF7", "U+ABF8", "U+ABF9">>,
      <<"U+FF10", "U+FF11", "U+FF12", "U+FF13", "U+FF14", "U+FF15", "U+FF16", "U+FF17", "U+FF18", "U+FF19">>,
      <<"U+104A0", "U+104A1", "U+104A2", "U+104A3", "U+104A4", "U+104A5", "U+104A6", "U+104A7", "U+104A8", "U+104A9">>,
      <<"U+10D30", "U+10D31", "U+10D32", "U+10D33", "U+10D34", "U+10D35", "U+10D36", "U+10D37", "U+10D38", "U+10D39">>,
      <<"U+11066", "U+11067", "U+11068", "U+11069", "U+1106A", "U+1106B", "U+1106C", "U+1106D", "U+1106E", "U+1106F">>,
      <<"U+110F0", "U+110F1", "U+110F2", "U+110F3", "U+110F4", "U+110F5", "U+110F6", "U+110F7", "U+110F8", "U+110F9">>,
      <<"U+11136", "U+11137", "U+11138", "U+11139", "U+1113A", "U+1113B", "U+1113C", "U+1113D", "U+1113E", "U+1113F">>,
      <<"U+111D0", "U+111D1", "U+111D2", "U+111D3", "U+111D4", "U+111D5", "U+111D6", "U+111D7", "U+111D8", "U+111D9">>,
      <<"U+112F0", "U+112F1", "U+112F2", "U+112F3", "U+112F4", "U+112F5", "U+112F6", "U+112F7", "U+112F8", "U+112F9">>,
      <<"U+11450", "U+11451", "U+11452", "U+11453", "U+11454", "U+11455", "U+11456", "U+11457", "U+11458", "U+11459">>,
      <<"U+114D0", "U+114D1", "U+114D2", "U+114D3", "U+114D4", "U+114D5", "U+114D6", "U+114D7", "U+114D8", "U+114D9">>,
      <<"U+11650", "U+11651", "U+11652", "U+11653", "U+11654", "U+11655", "U+11656", "U+11657", "U+11658", "U+11659">>,
      <<"U+116C0", "U+116C1", "U+116C2", "U+116C3", "U+116C4", "U+116C5", "U+116C6", "U+116C7", "U+116C8", "U+116C9">>,
      <<"U+11730", "U+11731", "U+11732", "U+11733", "U+11734", "U+11735", "U+11736", "U+11737", "U+11738", "U+11739">>,
      <<"U+118E0", "U+118E1", "U+118E2", "U+118E3", "U+118E4", "U+118E5", "U+118E6", "U+118E7", "U+118E8", "U+118E9">>,
      <<"U+11950", "U+11951", "U+11952", "U+11953", "U+11954", "U+11955", "U+11956", "U+11957", "U+11958", "U+11959">>,
      <<"U+11C50", "U+11C51", "U+11C52", "U+11C53", "U+11C54", "U+11C55", "U+11C56", "U+11C57", "U+11C58", "U+11C59">>,
      <<"U+11D50", "U+11D51", "U+11D52", "U+11D53", "U+11D54", "U+11D55", "U+11D56", "U+11D57", "U+11D58", "U+11D59">>,
      <<"U+11DA0", "U+11DA1", "U+11DA2", "U+11DA3", "U+11DA4", "U+11DA5", "U+11DA6", "U+11DA7", "U+11DA8", "U+11DA9">>,
      <<"U+16A60", "U+16A61", "U+16A62", "U+16A63", "U+16A64", "U+16A65", "U+16A66", "U+16A67", "U+16A68", "U+16A69">>,
      <<"U+16AC0", "U+16AC1", "U+16AC2", "U+16AC3", "U+16AC4", "U+16AC5", "U+16AC6", "U+16AC7", "U+16AC8", "U+16AC9">>,
      <<"U+16B50", "U+16B51", "U+16B52", "U+16B53", "U+16B54", "U+16B55", "U+16B56", "U+16B57", "U+16B58", "U+16B59">>,
      <<"U+1D7CE", "U+1D7CF", "U+1D7D0", "U+1D7D1", "U+1D7D2", "U+1D7D3", "U+1D7D4", "U+1D7D5", "U+1D7D6", "U+1D7D7">>,
      <<"U+1D7D8", "U+1D7D9", "U+1D7DA", "U+1D7DB", "U+1D7DC", "U+1D7DD", "U+1D7DE", "U+1D7DF", "U+1D7E0", "U+1D7E1">>,
      <<"U+1D7E2", "U+1D7E3", "U+1D7E4", "U+1D7E5", "U+1D7E6", "U+1D7E7", "U+1D7E8", "U+1D7E9", "U+1D7EA", "U+1D7EB">>,
      <<"U+1D7EC", "U+1D7ED", "U+1D7EE", "U+1D7EF", "U+1D7F0", "U+1D7F1", "U+1D7F2", "U+1D7F3", "U+1D7F4", "U+1D7F5">>,
      <<"U+1D7F6", "U+1D7F7", "U+1D7F8", "U+1D7F9", "U+1D7FA", "U+1D7FB", "U+1D7FC", "U+1D7FD", "U+1D7FE", "U+1D7FF">>,
      <<"U+1E140", "U+1E141", "U+1E142", "U+1E143", "U+1E144", "U+1E145", "U+1E146", "U+1E147", "U+1E148", "U+1E149">>,
      <<"U+1E2F0", "U+1E2F1", "U+1E2F2", "U+1E2F3", "U+1E2F4", "U+1E2F5", "U+1E2F6", "U+1E2F7", "U+1E2F8", "U+1E2F9">>,
      <<"U+1E950", "U+1E951", "U+1E952", "U+1E953", "U+1E954", "U+1E955", "U+1E956", "U+1E957", "U+1E958", "U+1E959">>,
      <<"U+1FBF0", "U+1FBF1", "U+1FBF2", "U+1FBF3", "U+1FBF4", "U+1FBF5", "U+1FBF6", "U+1FBF7", "U+1FBF8", "U+1FBF9">>>>

\* the decimal digits the interpreter py knows: Python 3.13 knows those
\* of Unicode 15.0 as well, which added the Kawi and the Nag Mundari digits
DigitosDecimais(py) ==
    IF py = "python3.13"
    THEN DIGITOS_UNICODE_14
         \o <<<<"U+11F50", "U+11F51", "U+11F52", "U+11F53", "U+11F54", "U+11F55", "U+11F56", "U+11F57", "U+11F58", "U+11F59">>,
              <<"U+1E4F0", "U+1E4F1", "U+1E4F2", "U+1E4F3", "U+1E4F4", "U+1E4F5", "U+1E4F6", "U+1E4F7", "U+1E4F8", "U+1E4F9">>>>
    ELSE DIGITOS_UNICODE_14

\* the value int() gives the character c, and -1 when c is not a decimal
\* digit, the characters \d of a str pattern does not match
ValorDecimal(py, c) ==
    LET t == DigitosDecimais(py)
    IN IF \E r \in 1..Len(t) : \E i \in 1..10 : t[r][i] = c
       THEN (CHOOSE i \in 1..10 : \E r \in 1..Len(t) : t[r][i] = c) - 1
       ELSE -1

Bissexto(a) == (a % 4 = 0 /\ a % 100 # 0) \/ a % 400 = 0

DiasNoMes(a, m) ==
    IF m = 2 THEN (IF Bissexto(a) THEN 29 ELSE 28)
    ELSE IF m \in {4, 6, 9, 11} THEN 30 ELSE 31

\* the text %d matches, 3[0-1]|[1-2]\d|0[1-9]|[1-9]| [1-9]: the second
\* character of a day from 10 to 29 is any decimal digit, the others are
\* ASCII digits
DiaOk(py, d) ==
    \/ Len(d) = 2 /\ d[1] = "3" /\ d[2] \in {"0", "1"}
    \/ Len(d) = 2 /\ d[1] \in {"1", "2"} /\ ValorDecimal(py, d[2]) >= 0
    \/ Len(d) = 2 /\ d[1] \in {"0", " "} /\ d[2] \in Digitos \ {"0"}
    \/ Len(d) = 1 /\ d[1] \in Digitos \ {"0"}

\* datetime.strptime(s, '%Y-%m-%d') does not raise ValueError under the
\* interpreter py: a year of four decimal digits (\d\d\d\d), a month
\* of one or two ASCII digits (1[0-2]|0[1-9]|[1-9]), a day as %d takes
\* it, separated by '-', int() of the three giving a date that exists
StrptimeOk(py, s) ==
    \E i, j \in 1..Len(s) :
        /\ i < j
        /\ s[i] = "-" /\ s[j] = "-"
        /\ LET y == SubSeq(s, 1, i - 1)
               m == SubSeq(s, i + 1, j - 1)
               d == SubSeq(s, j + 1, Len(s))
               V(c) == ValorDecimal(py, c)
               ano == 1000 * V(y[1]) + 100 * V(y[2]) + 10 * V(y[3]) + V(y[4])
               dia == IF Len(d) = 1 THEN V(d[1])
                      ELSE IF d[1] = " " THEN V(d[2])
                      ELSE 10 * V(d[1]) + V(d[2])
           IN /\ Len(y) = 4 /\ \A k \in 1..4 : V(y[k]) >= 0
              /\ Len(m) \in {1, 2} /\ TodosDigitos(m)
              /\ DiaOk(py, d)
              /\ ano >= 1
              /\ Numero(m) \in 1..12
              /\ dia >= 1
              /\ dia <= DiasNoMes(ano, Numero(m))

\* region codes: the two the code names, the default, and an unknown one
Estados == {"SP", "SC", "AN", "RJ"}

\* estado: str = Form(default="AN")
ESTADO_PADRAO == "AN"

\* the region is varied on the plain and on the masked identifier; the
\* other identifiers come with the default region
EstadosPara(cnpj) ==
    IF cnpj \in {Formatado, DigitosBase(CNPJ_LEN)} THEN Estados
    ELSE {ESTADO_PADRAO}

\* what certificado_base64 holds
Certificados == {"ok", "sem_chave", "sem_cert", "container_invalido", "b64_invalido"}

Senhas == {"certa", "errada"}

\* access keys the service may report
Chaves == {"k1", "k2"}

\* ------------------------------------------------------------------------
\* Responses of the remote service
\* ------------------------------------------------------------------------
\* One docZip element of an enumeration response.
\*   ns     the element is in the fiscal namespace (TRUE) or in none (FALSE)
\*   b64    its text: absent or empty, not decodable as base64, decodable
\*   bytes  the decoded bytes: gzip of UTF-8 text, plain UTF-8 text, or
\*          neither gzip nor UTF-8
\*   xml    the text is well-formed XML or not
\*   onde   the chNFe element of the inner document: absent, without
\*          namespace (a leaf, or with child elements), or in the namespace
\*   texto  the text of that chNFe element ("" when it has none)
DocZip(ns, b64, bytes, xml, onde, texto) ==
    [ns |-> ns, b64 |-> b64, bytes |-> bytes, xml |-> xml, onde |-> onde,
     texto |-> texto]

DocZipsIlegiveis ==
    {DocZip(TRUE, "vazio", "plano", "ok", "ausente", ""),
     DocZip(TRUE, "invalido", "plano", "ok", "ausente", ""),
     DocZip(TRUE, "ok", "lixo", "ok", "ausente", ""),
     DocZip(TRUE, "ok", "gzip", "malformado", "ausente", "")}

DocZipsLegiveis ==
    {DocZip(TRUE, "ok", "gzip", "ok", "ausente", ""),
     DocZip(TRUE, "ok", "gzip", "ok", "nfe", ""),
     DocZip(TRUE, "ok", "gzip", "ok", "sem_ns", "k1"),
     DocZip(TRUE, "ok", "gzip", "ok", "sem_ns_filhos", "k1")}
    \cup {DocZip(TRUE, "ok", "gzip", "ok", "nfe", k) : k \in Chaves}
    \cup {DocZip(TRUE, "ok", "plano", "ok", "nfe", "k1"),
          DocZip(FALSE, "ok", "gzip", "ok", "nfe", "k2")}

DocZipInputs == DocZipsIlegiveis \cup DocZipsLegiveis

\* One resNFe element of an enumeration response: its namespace and the
\* value of its chNFe attribute ("" when absent or empty)
ResumoInputs ==
    {[ns |-> FALSE, chNFe |-> "k2"], [ns |-> TRUE, chNFe |-> ""]}

SeqsAte(S, n) == UNION {[1..k -> S] : k \in 0..n}

\* What requests.post produces for the enumeration request.
\*   rede    "excecao": a RequestException was raised; "resposta" otherwise
\*   status  the HTTP status code
\*   xml_ok  the body is well-formed XML
\*   ultNSU  the sequence number of the last document of the batch
\*   maxNSU  the largest sequence number the service holds for the taxpayer
RespostaDist(rede, status, xml_ok, docZips, resumos, ultNSU, maxNSU) ==
    [rede |-> rede, status |-> status, xml_ok |-> xml_ok,
     docZips |-> docZips, resumos |-> resumos,
     ultNSU |-> ultNSU, maxNSU |-> maxNSU]

HTTP_OK == 200

\* statuses the service may answer with: success and a server error
StatusInputs == {HTTP_OK, 500}

HTTP_ERRO == CHOOSE st \in StatusInputs : st # HTTP_OK

\* The request asks for the documents after sequence number 0, so the
\* documents of the batch are numbered from 1.  A batch holds at most
\* MaxDocZips documents: either it holds all the service has, or it is full
\* and the service has one more (sampled on full batches of one repeated
\* docZip without resNFe).
RespostasDist ==
    {RespostaDist("excecao", 0, FALSE, <<>>, <<>>, 0, 0),
     RespostaDist("resposta", HTTP_ERRO, TRUE, <<>>, <<>>, 0, 0),
     RespostaDist("resposta", HTTP_OK, FALSE, <<>>, <<>>, 0, 0)}
    \cup {RespostaDist("resposta", HTTP_OK, TRUE, dz, rs, Len(dz), Len(dz)) :
            dz \in SeqsAte(DocZipInputs, MaxDocZips),
            rs \in SeqsAte(ResumoInputs, MaxResumos)}
    \cup {RespostaDist("resposta", HTTP_OK, TRUE, dz, <<>>,
                       MaxDocZips, MaxDocZips + 1) :
            dz \in {[i \in 1..MaxDocZips |-> d] : d \in DocZipInputs}}

\* The document carried by a lookup response.
\*   rede, status, xml_ok  as above
\*   elem  the element holding the document: nfeProc, NFe, only a protNFe,
\*         or none of them
\*   ns    that element is in the fiscal namespace
\*   vNF   the total value element: absent, a decimal number, an empty
\*         element, or text that is not a number
\*   dhEmi the text of the emission timestamp element, as its calendar
\*         date and the rest of the text (both empty when it is absent)
\* the document number, issuer identifier and issuer name every document
\* of the model carries
NNF_AMOSTRA == "4083092"
EMIT_CNPJ_AMOSTRA == "14309992000148"
EMIT_NOME_AMOSTRA == "FORNECEDOR TESTE LTDA"

\* the text of an element of the document, "" when there is no document
TextoSeDocumento(elem, texto) ==
    IF elem \in {"nfeProc", "NFe"} THEN texto ELSE ""

RespostaConsulta(rede, status, xml_ok, elem, ns, vNF, dhEmi) ==
    [rede |-> rede, status |-> status, xml_ok |-> xml_ok, elem |-> elem,
     ns |-> ns, vNF |-> vNF, dhEmi |-> dhEmi,
     nNF |-> TextoSeDocumento(elem, NNF_AMOSTRA),
     emitCNPJ |-> TextoSeDocumento(elem, EMIT_CNPJ_AMOSTRA),
     xNome |-> TextoSeDocumento(elem, EMIT_NOME_AMOSTRA)]

\* the day after DataIso2
DataIso3 == <<"2", "0", "2", "5", "-", "1", "0", "-", "0", "1">>

SemDhEmi == [data |-> <<>>, hora |-> ""]

\* the last second of DataIso2 and the first second of the day after it
DhEmiFimDoDia == [data |-> DataIso2, hora |-> "T23:59:59-03:00"]

DhEmiDiaSeguinte == [data |-> DataIso3, hora |-> "T00:00:00-03:00"]

RespostasConsulta ==
    {RespostaConsulta("excecao", 0, FALSE, "nenhum", TRUE, "ausente", SemDhEmi),
     RespostaConsulta("resposta", HTTP_ERRO, TRUE, "nenhum", TRUE, "ausente",
                      SemDhEmi),
     RespostaConsulta("resposta", HTTP_OK, FALSE, "nenhum", TRUE, "ausente",
                      SemDhEmi),
     RespostaConsulta("resposta", HTTP_OK, TRUE, "nenhum", TRUE, "ausente",
                      SemDhEmi),
     RespostaConsulta("resposta", HTTP_OK, TRUE, "protNFe", TRUE, "ausente",
                      SemDhEmi),
     RespostaConsulta("resposta", HTTP_OK, TRUE, "nfeProc", FALSE, "numero",
                      DhEmiFimDoDia),
     RespostaConsulta("resposta", HTTP_OK, TRUE, "nfeProc", TRUE, "numero",
                      DhEmiDiaSeguinte)}
    \cup {RespostaConsulta("resposta", HTTP_OK, TRUE, e, TRUE, v,
                           DhEmiFimDoDia) :
            e \in {"nfeProc", "NFe"},
            v \in {"ausente", "numero", "vazio", "nao_numerico"}}

\* ------------------------------------------------------------------------
\* extrair_chaves_manifestacao
\* ------------------------------------------------------------------------
Range(s) == {s[i] : i \in 1..Len(s)}

\* the loop body over one docZip: the keys it appends, <<>> when the element
\* is skipped or raises.  `engolida` tells that a KeyboardInterrupt raised
\* inside the inner try (in gzip.decompress, in decode or in logger.info)
\* was caught by its bare except: the bytes are then decoded as UTF-8 as
\* they are, which raises UnicodeDecodeError on gzip data (its second byte,
\* 0x8b, starts no UTF-8 sequence) and gives, as without the interruption,
\* the text of a plain element
ChavesDoDocZip(dz, engolida) ==
    IF dz.b64 # "ok" THEN <<>>
    ELSE IF dz.bytes \notin {"gzip", "plano"} THEN <<>>
    ELSE IF dz.bytes = "gzip" /\ engolida THEN <<>>
    ELSE IF dz.xml # "ok" THEN <<>>
    \* find('.//chNFe') or find('.//nfe:chNFe'): an element without children
    \* is false, so the first operand is kept only when it has children
    ELSE LET chave_elem ==
                 IF dz.onde = "sem_ns_filhos" THEN "sem_ns"
                 ELSE IF dz.onde = "nfe" THEN "nfe"
                 ELSE "None"
         IN IF chave_elem # "None" /\ dz.texto # "" THEN <<dz.texto>> ELSE <<>>

\* a docZip whose processing raises (the except branch of the loop)
DocZipMalformado(dz, engolida) ==
    \/ dz.b64 = "invalido"
    \/ dz.b64 = "ok" /\ dz.bytes \notin {"gzip", "plano"}
    \/ dz.b64 = "ok" /\ dz.bytes = "gzip" /\ engolida
    \/ dz.b64 = "ok" /\ dz.bytes \in {"gzip", "plano"} /\ dz.xml # "ok"

RECURSIVE Concat(_)
Concat(ss) == IF ss = <<>> THEN <<>> ELSE Head(ss) \o Concat(Tail(ss))

\* findall('.//X') + findall('.//nfe:X'): the elements without namespace
\* in document order, then those in the namespace
SemNsDepoisNs(elems) ==
    SelectSeq(elems, LAMBDA e : ~e.ns) \o SelectSeq(elems, LAMBDA e : e.ns)

\* the positions, in the order the loop takes the docZip elements, of the
\* elements that reach the inner try with gzip data: an interruption
\* caught there makes the loop give the element up
Engoliveis(resp) ==
    {i \in 1..Len(resp.docZips) :
        /\ SemNsDepoisNs(resp.docZips)[i].b64 = "ok"
        /\ SemNsDepoisNs(resp.docZips)[i].bytes = "gzip"}

\* the list `chaves` before duplicates are removed, when an interruption
\* was caught by the bare except at the positions `engolidas` of the loop
ChavesBrutas(resp, engolidas) ==
    Concat([i \in 1..Len(SemNsDepoisNs(resp.docZips)) |->
                ChavesDoDocZip(SemNsDepoisNs(resp.docZips)[i],
                               i \in engolidas)])
    \o Concat([i \in 1..Len(SemNsDepoisNs(resp.resumos)) |->
                IF SemNsDepoisNs(resp.resumos)[i].chNFe # ""
                THEN <<SemNsDepoisNs(resp.resumos)[i].chNFe>> ELSE <<>>])

\* every list holding each element of S once
Ordenacoes(S) ==
    {s \in [1..Cardinality(S) -> S] : Range(s) = S}

\* an extraction that returns the keys as they were read
extrair_chaves_sem_set(resp, engolidas) ==
    IF ~resp.xml_ok THEN {<<>>}
    ELSE {ChavesBrutas(resp, engolidas)}

\* list(set(chaves)): the distinct keys, in an order the hash of the
\* strings decides; the result is one of these lists
extrair_chaves_manifestacao(resp, engolidas) ==
    IF ~resp.xml_ok THEN {<<>>}
    ELSE Ordenacoes(Range(ChavesBrutas(resp, engolidas)))

\* ------------------------------------------------------------------------
\* consultar_manifestacao_destinatario
\* ------------------------------------------------------------------------
URL_DIST_SP == "https://nfe.fazenda.sp.gov.br/ws/nfedistribuicaodfe.asmx"
URL_DIST_AN == "https://www1.nfe.fazenda.gov.br/NFeDistribuicaoDFe/NFeDistribuicaoDFe.asmx"
URL_CONS_SP == "https://nfe.fazenda.sp.gov.br/ws/nfeconsultaprotocolo4.asmx"
URL_CONS_AN == "https://www1.nfe.fazenda.gov.br/NFeConsultaProtocolo/NFeConsultaProtocolo.asmx"

UrlDist(uf) == IF uf = "SP" THEN URL_DIST_SP ELSE URL_DIST_AN

\* a lookup that always goes to the national environment
UrlConsultaNacional(uf) == URL_CONS_AN

UrlConsulta(uf) == IF uf = "SP" THEN URL_CONS_SP ELSE URL_CONS_AN

CodigoUF(uf) == IF uf = "SP" THEN "35" ELSE IF uf = "SC" THEN "42" ELSE "35"

\* an enumeration request that starts after the first document
PedidoDistDepoisDoPrimeiro(cnpj, uf) ==
    [tipo |-> "dist", url |-> UrlDist(uf), cUFAutor |-> CodigoUF(uf),
     CNPJ |-> cnpj, NSU |-> 1, chNFe |-> ""]

\* the enumeration request put on the wire: <NSU>000000000000000</NSU>
PedidoDist(cnpj, uf) ==
    [tipo |-> "dist", url |-> UrlDist(uf), cUFAutor |-> CodigoUF(uf),
     CNPJ |-> cnpj, NSU |-> 0, chNFe |-> ""]

\* the lookup request put on the wire
PedidoConsulta(chave, uf) ==
    [tipo |-> "consulta", url |-> UrlConsulta(uf), cUFAutor |-> "",
     CNPJ |-> <<>>, NSU |-> 0, chNFe |-> chave]

\* the dates are parsed before the request is built
DatasOk(py, di, df) == StrptimeOk(py, di) /\ StrptimeOk(py, df)

\* the keys appended to `chaves` while the response was read, none when
\* the body was not parsed
ChavesLidas(resp, engolidas) ==
    IF resp.rede = "excecao" \/ resp.status # HTTP_OK \/ ~resp.xml_ok
    THEN <<>>
    ELSE ChavesBrutas(resp, engolidas)

\* the lists the function may return for a response of the service
consultar_manifestacao_destinatario(resp, engolidas) ==
    IF resp.rede = "excecao" THEN {<<>>}
    ELSE IF resp.status # HTTP_OK THEN {<<>>}
    ELSE extrair_chaves_manifestacao(resp, engolidas)

\* ------------------------------------------------------------------------
\* consultar_nfe_por_chave, extrair_xml_nfe_da_resposta, extrair_info_nfe
\* ------------------------------------------------------------------------
\* the serialized element, or "None"
extrair_xml_nfe_da_resposta(resp) ==
    IF ~resp.xml_ok THEN "None"
    ELSE IF resp.ns /\ resp.elem \in {"nfeProc", "NFe"} THEN resp.elem
    ELSE "None"

consultar_nfe_por_chave(resp) ==
    IF resp.rede = "excecao" THEN "None"
    ELSE IF resp.status # HTTP_OK THEN "None"
    ELSE extrair_xml_nfe_da_resposta(resp)

\* an extraction that takes a total value it cannot convert as zero
extrair_info_nfe_valor_padrao(resp, chave) ==
    <<[chave |-> chave, numero |-> resp.nNF, dataEmissao |-> resp.dhEmi,
       fornecedorCNPJ |-> resp.emitCNPJ, fornecedorNome |-> resp.xNome,
       valorTotal |-> resp.vNF, xmlContent |-> resp.elem]>>

\* the dictionary returned when no element is found: every find() of the
\* function asks for the fiscal namespace, so nothing is found in a
\* document that declares none
InfoSemElementos(resp, chave) ==
    [chave |-> chave, numero |-> "", dataEmissao |-> SemDhEmi,
     fornecedorCNPJ |-> "", fornecedorNome |-> "",
     valorTotal |-> "ausente", xmlContent |-> resp.elem]

\* the record of one document as a one-element list, or the empty list
\* for None (ET.fromstring raised, or float() raised on the total value);
\* valorTotal "ausente" stands for the 0.0 taken when vNF is not found
extrair_info_nfe(resp, chave) ==
    IF ~resp.xml_ok THEN <<>>
    ELSE IF ~resp.ns THEN <<InfoSemElementos(resp, chave)>>
    ELSE IF resp.vNF \in {"vazio", "nao_numerico"} THEN <<>>
    ELSE <<[chave |-> chave, numero |-> resp.nNF, dataEmissao |-> resp.dhEmi,
            fornecedorCNPJ |-> resp.emitCNPJ, fornecedorNome |-> resp.xNome,
            valorTotal |-> resp.vNF, xmlContent |-> resp.elem]>>

\* ------------------------------------------------------------------------
\* The content of a docZip: base64, gzip and UTF-8
\* ------------------------------------------------------------------------
\* Text is a sequence of code points, bytes are numbers in 0..255 and the
\* text of a docZip element is a sequence of one-character strings.  A
\* decoder returns a record: ok tells whether it raised, and the value.

\* code points of the XML texts the model draws: "<", "a", "é" and "€",
\* which take one, one, two and three bytes in UTF-8
Caracteres == {60, 97, 233, 8364}

TextosXml == SeqsAte(Caracteres, MaxTexto)

\* str.encode('utf-8') of one code point below 65536
Utf8DoCaractere(c) ==
    IF c < 128 THEN <<c>>
    ELSE IF c < 2048 THEN <<192 + (c \div 64), 128 + (c % 64)>>
    ELSE <<224 + (c \div 4096), 128 + ((c \div 64) % 64), 128 + (c % 64)>>

Utf8Encode(t) == Concat([i \in 1..Len(t) |-> Utf8DoCaractere(t[i])])

Continuacao(b) == b >= 128 /\ b < 192

\* bytes.decode('utf-8'), strict: ok is FALSE when UnicodeDecodeError is
\* raised (a stray or missing continuation byte, an overlong form, a
\* surrogate, a lead byte above F4)
RECURSIVE Utf8Decode(_)
Utf8Decode(b) ==
    IF b = <<>> THEN [ok |-> TRUE, valor |-> <<>>]
    ELSE LET b1 == b[1]
             n == IF b1 < 128 THEN 1
                  ELSE IF b1 >= 194 /\ b1 < 224 THEN 2
                  ELSE IF b1 >= 224 /\ b1 < 240 THEN 3
                  ELSE IF b1 >= 240 /\ b1 < 245 THEN 4
                  ELSE 0
         IN IF n = 0 \/ Len(b) < n THEN [ok |-> FALSE, valor |-> <<>>]
            ELSE IF \E k \in 2..n : ~Continuacao(b[k])
            THEN [ok |-> FALSE, valor |-> <<>>]
            ELSE IF \/ b1 = 224 /\ b[2] < 160
                    \/ b1 = 237 /\ b[2] >= 160
                    \/ b1 = 240 /\ b[2] < 144
                    \/ b1 = 244 /\ b[2] >= 144
            THEN [ok |-> FALSE, valor |-> <<>>]
            ELSE LET c == IF n = 1 THEN b1
                          ELSE IF n = 2 THEN (b1 - 192) * 64 + (b[2] - 128)
                          ELSE IF n = 3
                          THEN (b1 - 224) * 4096 + (b[2] - 128) * 64
                               + (b[3] - 128)
                          ELSE (b1 - 240) * 262144 + (b[2] - 128) * 4096
                               + (b[3] - 128) * 64 + (b[4] - 128)
                     resto == Utf8Decode(SubSeq(b, n + 1, Len(b)))
                 IN IF resto.ok
                    THEN [ok |-> TRUE, valor |-> <<c>> \o resto.valor]
                    ELSE [ok |-> FALSE, valor |-> <<>>]

\* bitwise exclusive or of two natural numbers
RECURSIVE Xor(_, _)
Xor(a, b) ==
    IF a = 0 THEN b
    ELSE IF b = 0 THEN a
    ELSE ((a + b) % 2) + 2 * Xor(a \div 2, b \div 2)

\* a 32-bit word is the pair of its low and high 16 bits
XorPalavra(x, y) == <<Xor(x[1], y[1]), Xor(x[2], y[2])>>

DeslocaDireita(x) == <<(x[1] \div 2) + (x[2] % 2) * 32768, x[2] \div 2>>

\* the reflected CRC-32 polynomial EDB88320
CRC_POLY == <<33568, 60856>>

\* the word FFFFFFFF
CRC_UNS == <<65535, 65535>>

CrcPasso(x) ==
    IF x[1] % 2 = 1 THEN XorPalavra(DeslocaDireita(x), CRC_POLY)
    ELSE DeslocaDireita(x)

CrcDoByte(x, b) ==
    CrcPasso(CrcPasso(CrcPasso(CrcPasso(
        CrcPasso(CrcPasso(CrcPasso(CrcPasso(XorPalavra(x, <<b, 0>>)))))))))

\* the register after each byte in turn (the register is computed before
\* the next byte is taken)
RECURSIVE CrcDosBytes(_, _)
CrcDosBytes(x, bs) ==
    IF bs = <<>> THEN x
    ELSE LET y == CrcDoByte(x, Head(bs))
         IN IF y[1] >= 0 THEN CrcDosBytes(y, Tail(bs)) ELSE y

\* zlib.crc32 of the bytes, as the four bytes of the gzip trailer
Crc32(bs) ==
    LET x == XorPalavra(CrcDosBytes(CRC_UNS, bs), CRC_UNS)
    IN <<x[1] % 256, x[1] \div 256, x[2] % 256, x[2] \div 256>>

\* a number below 2^31 as four bytes, least significant first
QuatroBytes(n) ==
    <<n % 256, (n \div 256) % 256, (n \div 65536) % 256, n \div 16777216>>

\* the ten bytes gzip.compress(data, compresslevel=0, mtime=0) starts with:
\* magic 1F 8B, method 8 (deflate), no flags, no time, XFL 4, OS 3 (Unix)
GZIP_CABECALHO == <<31, 139, 8, 0, 0, 0, 0, 0, 4, 3>>

\* the deflate stream in its stored form: one final block with the length,
\* its complement and the bytes as they are (fewer than 65536 bytes)
DeflateStored(bs) ==
    <<1, Len(bs) % 256, Len(bs) \div 256,
      255 - (Len(bs) % 256), 255 - (Len(bs) \div 256)>> \o bs

\* the deflate stream as one final block with the fixed Huffman codes and
\* literals only: the block header bits 1, 1, 0, the code of each byte
\* (eight bits from 00110000 for the bytes below 144, nine bits from
\* 110010000 for the others, most significant bit first), the
\* end-of-block code 0000000, packed into bytes from the least significant
\* bit up and padded with zero bits
DeflateFixo(bs) ==
    LET BitsMsb(v, n) == [k \in 1..n |-> (v \div (2 ^ (n - k))) % 2]
        Codigo(b) == IF b < 144 THEN BitsMsb(48 + b, 8)
                     ELSE BitsMsb(400 + b - 144, 9)
        Byte(bits, k) ==
            LET B(i) == IF i <= Len(bits) THEN bits[i] ELSE 0
            IN B(8 * k - 7) + 2 * B(8 * k - 6) + 4 * B(8 * k - 5)
               + 8 * B(8 * k - 4) + 16 * B(8 * k - 3) + 32 * B(8 * k - 2)
               + 64 * B(8 * k - 1) + 128 * B(8 * k)
        Empacotar(bits) ==
            [k \in 1..((Len(bits) + 7) \div 8) |-> Byte(bits, k)]
    IN Empacotar(<<1, 1, 0>>
                 \o Concat([i \in 1..Len(bs) |-> Codigo(bs[i])])
                 \o <<0, 0, 0, 0, 0, 0, 0>>)

\* gzip.compress: header, deflate stream, CRC-32 and length of the data
GzipCompress(bs) ==
    GZIP_CABECALHO \o DeflateStored(bs) \o Crc32(bs) \o QuatroBytes(Len(bs))

\* bytes.lstrip(b"\x00")
RECURSIVE SemZerosAEsquerda(_)
SemZerosAEsquerda(bs) ==
    IF bs # <<>> /\ Head(bs) = 0 THEN SemZerosAEsquerda(Tail(bs)) ELSE bs

\* reading up to a zero byte from index i on: the index after the zero
\* byte, or after the last byte when there is none
RECURSIVE AposZero(_, _)
AposZero(z, i) ==
    IF i > Len(z) THEN i
    ELSE IF z[i] = 0 THEN i + 1
    ELSE AposZero(z, i + 1)

\* gzip._read_gzip_header on a member that has bytes: ok is FALSE when it
\* raises (bad magic number, unknown method, bytes missing); inicio is the
\* index of the first byte after the header, the optional extra field, file
\* name, comment and header CRC being skipped as the flag byte tells (the
\* flag bits FEXTRA = 4, FNAME = 8, FCOMMENT = 16, FHCRC = 2)
GzipLerCabecalho(z) ==
    LET falha == [ok |-> FALSE, inicio |-> 0]
        BitLigado(byte, peso) == (byte \div peso) % 2 = 1
    IN IF Len(z) < 2 \/ z[1] # 31 \/ z[2] # 139 THEN falha
       ELSE IF Len(z) < 10 THEN falha
       ELSE IF z[3] # 8 THEN falha
       ELSE LET flag == z[4]
                p1 == IF ~BitLigado(flag, 4) THEN 11
                      ELSE IF Len(z) < 12 THEN 0
                      ELSE IF Len(z) < 12 + z[11] + 256 * z[12] THEN 0
                      ELSE 13 + z[11] + 256 * z[12]
                p2 == IF p1 # 0 /\ BitLigado(flag, 8)
                      THEN AposZero(z, p1) ELSE p1
                p3 == IF p2 # 0 /\ BitLigado(flag, 16)
                      THEN AposZero(z, p2) ELSE p2
                p4 == IF p3 # 0 /\ BitLigado(flag, 2)
                      THEN (IF Len(z) < p3 + 1 THEN 0 ELSE p3 + 2)
                      ELSE p3
            IN IF p4 = 0 THEN falha ELSE [ok |-> TRUE, inicio |-> p4]

\* bit p of the bytes, the least significant bit of the first byte being
\* bit 0
BitEm(z, p) == (z[(p \div 8) + 1] \div (2 ^ (p % 8))) % 2

\* the number in the n bits from bit p on, least significant bit first
RECURSIVE BitsEm(_, _, _)
BitsEm(z, p, n) ==
    IF n = 0 THEN 0 ELSE BitEm(z, p) + 2 * BitsEm(z, p + 1, n - 1)

\* the tables of the deflate format: base and number of extra bits of the
\* length symbols 257 to 285 and of the distance symbols 0 to 29, the order
\* in which a dynamic block lists the lengths of the code length code, and
\* the code lengths of the fixed literal/length and distance codes
TabelasDeflate ==
    [lbase |-> <<3, 4, 5, 6, 7, 8, 9, 10, 11, 13, 15, 17, 19, 23, 27, 31, 35,
                 43, 51, 59, 67, 83, 99, 115, 131, 163, 195, 227, 258>>,
     lext |-> <<0, 0, 0, 0, 0, 0, 0, 0, 1, 1, 1, 1, 2, 2, 2, 2, 3, 3, 3, 3,
                4, 4, 4, 4, 5, 5, 5, 5, 0>>,
     dbase |-> <<1, 2, 3, 4, 5, 7, 9, 13, 17, 25, 33, 49, 65, 97, 129, 193,
                 257, 385, 513, 769, 1025, 1537, 2049, 3073, 4097, 6145,
                 8193, 12289, 16385, 24577>>,
     dext |-> <<0, 0, 0, 0, 1, 1, 2, 2, 3, 3, 4, 4, 5, 5, 6, 6, 7, 7, 8, 8,
                9, 9, 10, 10, 11, 11, 12, 12, 13, 13>>,
     ordem |-> <<16, 17, 18, 0, 8, 7, 9, 6, 10, 5, 11, 4, 12, 3, 13, 2, 14,
                 1, 15>>,
     fixo_lit |-> [i \in 1..288 |-> IF i <= 144 THEN 8
                                    ELSE IF i <= 256 THEN 9
                                    ELSE IF i <= 280 THEN 7
                                    ELSE 8],
     fixo_dist |-> [i \in 1..30 |-> 5]]

\* what is left of the code space after the codes of each length from len
\* to 15 took their share (lens[i] is the code length of symbol i - 1, 0 for
\* a symbol without a code): 0 for a complete code, negative as soon as the
\* code is over-subscribed, positive for an incomplete one
RECURSIVE Sobra(_, _, _)
Sobra(lens, len, left) ==
    IF len > 15 THEN left
    ELSE LET l == 2 * left
                  - Cardinality({i \in 1..Len(lens) : lens[i] = len})
         IN IF l < 0 THEN l ELSE Sobra(lens, len + 1, l)

\* whether inflate builds a literal/length or distance code from the
\* lengths: the code is complete, or its only codes have one bit
CodigoAceito(lens) ==
    \/ Sobra(lens, 1, 1) = 0
    \/ /\ Sobra(lens, 1, 1) > 0
       /\ \A i \in 1..Len(lens) : lens[i] \in {0, 1}

\* one symbol of the canonical Huffman code with these lengths, read bit by
\* bit from bit p on: code holds the bits read so far, first the first code
\* of length len.  ok is FALSE when the bytes end or the bits are no code
RECURSIVE HuffDecode(_, _, _, _, _, _)
HuffDecode(z, p, lens, len, code, first) ==
    IF len > 15 \/ p >= 8 * Len(z)
    THEN [ok |-> FALSE, simbolo |-> 0, p |-> p]
    ELSE LET c == code + BitEm(z, p)
             doTamanho == SelectSeq([i \in 1..Len(lens) |-> i],
                                    LAMBDA i : lens[i] = len)
         IN IF c - Len(doTamanho) < first
            THEN [ok |-> TRUE, simbolo |-> doTamanho[c - first + 1] - 1,
                  p |-> p + 1]
            ELSE HuffDecode(z, p + 1, lens, len + 1, 2 * c,
                            2 * (first + Len(doTamanho)))

\* the code lengths a dynamic block lists, read with the code length code
\* cl until there are total of them: symbols 0 to 15 are lengths, 16 repeats
\* the length before it 3 to 6 times, 17 and 18 give 3 to 10 and 11 to 138
\* zeros
RECURSIVE LerLens(_, _, _, _, _)
LerLens(z, p, cl, total, lens) ==
    LET falha == [ok |-> FALSE, lens |-> <<>>, p |-> p]
        Repetir(s, nb, base) ==
            IF s.simbolo = 16 /\ lens = <<>> THEN falha
            ELSE IF s.p + nb > 8 * Len(z) THEN falha
            ELSE IF Len(lens) + base + BitsEm(z, s.p, nb) > total THEN falha
            ELSE LerLens(z, s.p + nb, cl, total,
                         lens \o [i \in 1..(base + BitsEm(z, s.p, nb)) |->
                                     IF s.simbolo = 16 THEN lens[Len(lens)]
                                     ELSE 0])
        ComSimbolo(s) ==
            IF ~s.ok THEN falha
            ELSE IF s.simbolo < 16
            THEN LerLens(z, s.p, cl, total, Append(lens, s.simbolo))
            ELSE Repetir(s, IF s.simbolo = 16 THEN 2
                            ELSE IF s.simbolo = 17 THEN 3 ELSE 7,
                         IF s.simbolo = 18 THEN 11 ELSE 3)
    IN IF Len(lens) = total THEN [ok |-> TRUE, lens |-> lens, p |-> p]
       ELSE ComSimbolo(HuffDecode(z, p, cl, 1, 0, 0))

\* the symbols of one Huffman block from bit p on, with the literal/length
\* code ll and the distance code dl: a literal is a byte of the output, 256
\* ends the block, a length symbol is followed by a distance and copies
\* bytes already written.  ok is FALSE for bits that are no code, a length
\* or distance symbol that does not exist, a distance beyond the output,
\* and bytes that end before the block does
RECURSIVE InflateCodes(_, _, _, _, _)
InflateCodes(z, p, ll, dl, saida) ==
    LET falha == [ok |-> FALSE, valor |-> <<>>, p |-> p]
        T == TabelasDeflate
        Copiar(q, len, dist) ==
            IF dist > Len(saida) THEN falha
            ELSE InflateCodes(z, q, ll, dl,
                     saida \o [i \in 1..len |->
                         saida[Len(saida) - dist + 1 + ((i - 1) % dist)]])
        ComDistancia(len, d) ==
            IF ~d.ok \/ d.simbolo + 1 > Len(T.dbase) THEN falha
            ELSE IF d.p + T.dext[d.simbolo + 1] > 8 * Len(z) THEN falha
            ELSE Copiar(d.p + T.dext[d.simbolo + 1], len,
                        T.dbase[d.simbolo + 1]
                        + BitsEm(z, d.p, T.dext[d.simbolo + 1]))
        ComSimbolo(s) ==
            IF Len(saida) < 0 \/ ~s.ok THEN falha
            ELSE IF s.simbolo < 256
            THEN InflateCodes(z, s.p, ll, dl, Append(saida, s.simbolo))
            ELSE IF s.simbolo = 256
            THEN [ok |-> TRUE, valor |-> saida, p |-> s.p]
            ELSE IF s.simbolo - 256 > Len(T.lbase) THEN falha
            ELSE IF s.p + T.lext[s.simbolo - 256] > 8 * Len(z) THEN falha
            ELSE ComDistancia(
                     T.lbase[s.simbolo - 256]
                     + BitsEm(z, s.p, T.lext[s.simbolo - 256]),
                     HuffDecode(z, s.p + T.lext[s.simbolo - 256], dl, 1, 0, 0))
    IN ComSimbolo(HuffDecode(z, p, ll, 1, 0, 0))

\* a block with dynamic Huffman codes from bit p on (after the three bits
\* of the block header): the numbers of literal/length codes, of distance
\* codes and of code length codes, the lengths of the code length code,
\* the lengths of the two codes, then the symbols
InflateDinamico(z, p, saida) ==
    LET falha == [ok |-> FALSE, valor |-> <<>>, p |-> p]
        T == TabelasDeflate
        ComLens(nlen, ndist, l) ==
            IF ~l.ok THEN falha
            ELSE IF l.lens[257] = 0 THEN falha
            ELSE IF \/ ~CodigoAceito(SubSeq(l.lens, 1, nlen))
                    \/ ~CodigoAceito(SubSeq(l.lens, nlen + 1, nlen + ndist))
            THEN falha
            ELSE InflateCodes(z, l.p, SubSeq(l.lens, 1, nlen),
                              SubSeq(l.lens, nlen + 1, nlen + ndist), saida)
        ComCodigo(nlen, ndist, ncode, cl) ==
            IF Sobra(cl, 1, 1) # 0 THEN falha
            ELSE ComLens(nlen, ndist,
                         LerLens(z, p + 14 + 3 * ncode, cl, nlen + ndist,
                                 <<>>))
        ComNumeros(nlen, ndist, ncode) ==
            IF nlen > 286 \/ ndist > 30 THEN falha
            ELSE IF p + 14 + 3 * ncode > 8 * Len(z) THEN falha
            ELSE ComCodigo(nlen, ndist, ncode,
                     [s \in 1..19 |->
                         IF \E o \in 1..ncode : T.ordem[o] = s - 1
                         THEN BitsEm(z, p + 14 + 3 * ((CHOOSE o \in 1..ncode :
                                         T.ordem[o] = s - 1) - 1), 3)
                         ELSE 0])
    IN IF p + 14 > 8 * Len(z) THEN falha
       ELSE ComNumeros(BitsEm(z, p, 5) + 257, BitsEm(z, p + 5, 5) + 1,
                       BitsEm(z, p + 10, 4) + 4)

\* zlib's raw inflate from bit p of the bytes on: each block starts with
\* the final-block bit and the two bits of the block type.  A stored block
\* (type 0) goes on at the next byte boundary, the bits in between being
\* ignored, with the length, its complement and the bytes; types 1 and 2
\* are Huffman blocks with the fixed and with dynamic codes; type 3 does
\* not exist.  The blocks follow one another up to a final one.  ok is
\* FALSE when the stream is malformed or ends early; fim is the index of
\* the first byte after the stream
RECURSIVE Inflate(_, _, _)
Inflate(z, p, saida) ==
    LET falha == [ok |-> FALSE, valor |-> <<>>, fim |-> 0]
        Stored(i) ==
            IF Len(z) < i + 3 THEN [ok |-> FALSE]
            ELSE IF z[i + 2] # 255 - z[i] \/ z[i + 3] # 255 - z[i + 1]
            THEN [ok |-> FALSE]
            ELSE IF Len(z) < i + 3 + z[i] + 256 * z[i + 1]
            THEN [ok |-> FALSE]
            ELSE [ok |-> TRUE,
                  valor |-> saida \o SubSeq(z, i + 4,
                                            i + 3 + z[i] + 256 * z[i + 1]),
                  p |-> 8 * (i + 3 + z[i] + 256 * z[i + 1])]
        Bloco(btype) ==
            IF btype = 0 THEN Stored(((p + 10) \div 8) + 1)
            ELSE IF btype = 1
            THEN InflateCodes(z, p + 3, TabelasDeflate.fixo_lit,
                              TabelasDeflate.fixo_dist, saida)
            ELSE IF btype = 2 THEN InflateDinamico(z, p + 3, saida)
            ELSE [ok |-> FALSE]
        Seguir(bfinal, bloco) ==
            IF ~bloco.ok THEN falha
            ELSE IF bfinal = 1
            THEN [ok |-> TRUE, valor |-> bloco.valor,
                  fim |-> ((bloco.p + 7) \div 8) + 1]
            ELSE Inflate(z, bloco.p, bloco.valor)
    IN IF p + 3 > 8 * Len(z) THEN falha
       ELSE Seguir(BitEm(z, p), Bloco(BitEm(z, p + 1) + 2 * BitEm(z, p + 2)))

\* gzip.decompress: the data of the members one after the other, zero bytes
\* between and after them being skipped; no byte at all gives no data.  ok
\* is FALSE when it raises (bad header, malformed or unfinished deflate
\* stream, fewer than eight bytes after it, CRC or length mismatch)
RECURSIVE GzipDecompress(_)
GzipDecompress(z) ==
    LET falha == [ok |-> FALSE, valor |-> <<>>]
        ComResto(dados, resto) ==
            IF resto.ok THEN [ok |-> TRUE, valor |-> dados \o resto.valor]
            ELSE falha
        ComDados(d) ==
            IF ~d.ok THEN falha
            ELSE IF Len(z) < d.fim + 7 THEN falha
            ELSE IF SubSeq(z, d.fim, d.fim + 3) # Crc32(d.valor) THEN falha
            ELSE IF SubSeq(z, d.fim + 4, d.fim + 7) # QuatroBytes(Len(d.valor))
            THEN falha
            ELSE ComResto(d.valor,
                          GzipDecompress(SemZerosAEsquerda(
                              SubSeq(z, d.fim + 8, Len(z)))))
        ComCabecalho(cab) ==
            IF ~cab.ok THEN falha
            ELSE ComDados(Inflate(z, 8 * (cab.inicio - 1), <<>>))
    IN IF z = <<>> THEN [ok |-> TRUE, valor |-> <<>>]
       ELSE ComCabecalho(GzipLerCabecalho(z))

\* the characters of ASCII: the printable ones as they are, the control
\* characters U+0000 to U+001F and U+007F and the grave accent U+0060,
\* which a string cannot hold, by their code point, and the four the
\* language has an escape for
ASCII ==
    {" ", "!", "\"", "#", "$", "%", "&", "'", "(", ")", "*", "+", ",", "-",
     ".", "/", "0", "1", "2", "3", "4", "5", "6", "7", "8", "9", ":", ";",
     "<", "=", ">", "?", "@", "A", "B", "C", "D", "E", "F", "G", "H", "I",
     "J", "K", "L", "M", "N", "O", "P", "Q", "R", "S", "T", "U", "V", "W",
     "X", "Y", "Z", "[", "\\", "]", "^", "_", "a", "b", "c", "d", "e",
     "f", "g", "h", "i", "j", "k", "l", "m", "n", "o", "p", "q", "r", "s",
     "t", "u", "v", "w", "x", "y", "z", "{", "|", "}", "~", "U+0000",
     "U+0001", "U+0002", "U+0003", "U+0004", "U+0005", "U+0006", "U+0007",
     "U+0008", "U+0009", "U+000A", "U+000B", "U+000C", "U+000D", "U+000E",
     "U+000F", "U+0010", "U+0011", "U+0012", "U+0013", "U+0014", "U+0015",
     "U+0016", "U+0017", "U+0018", "U+0019", "U+001A", "U+001B", "U+001C",
     "U+001D", "U+001E", "U+001F", "U+0060", "U+007F", "\t", "\n", "\f", "\r"}

\* the base64 alphabet, and the padding character
B64_ALFABETO ==
    <<"A", "B", "C", "D", "E", "F", "G", "H", "I", "J", "K", "L", "M", "N",
      "O", "P", "Q", "R", "S", "T", "U", "V", "W", "X", "Y", "Z",
      "a", "b", "c", "d", "e", "f", "g", "h", "i", "j", "k", "l", "m", "n",
      "o", "p", "q", "r", "s", "t", "u", "v", "w", "x", "y", "z",
      "0", "1", "2", "3", "4", "5", "6", "7", "8", "9", "+", "/">>

B64_PAD == "="

B64Char(v) == B64_ALFABETO[v + 1]

\* the value of a character of the alphabet, 64 for any other character
B64Valor(c) ==
    IF \E v \in 0..63 : B64_ALFABETO[v + 1] = c
    THEN CHOOSE v \in 0..63 : B64_ALFABETO[v + 1] = c
    ELSE 64

\* base64.b64encode: three bytes give four characters, the last group is
\* padded with "="
RECURSIVE B64Encode(_)
B64Encode(bs) ==
    IF bs = <<>> THEN <<>>
    ELSE IF Len(bs) = 1
    THEN <<B64Char(bs[1] \div 4), B64Char((bs[1] % 4) * 16), B64_PAD, B64_PAD>>
    ELSE IF Len(bs) = 2
    THEN <<B64Char(bs[1] \div 4),
           B64Char((bs[1] % 4) * 16 + (bs[2] \div 16)),
           B64Char((bs[2] % 16) * 4), B64_PAD>>
    ELSE <<B64Char(bs[1] \div 4),
           B64Char((bs[1] % 4) * 16 + (bs[2] \div 16)),
           B64Char((bs[2] % 16) * 4 + (bs[3] \div 64)),
           B64Char(bs[3] % 64)>> \o B64Encode(SubSeq(bs, 4, Len(bs)))

\* the interpreters the program runs under (it pins none): binascii.
\* a2b_base64 stops at the "=" that completes a group under the one, and
\* goes on reading after it under the other; the other knows the decimal
\* digits of a later Unicode version
Interpretadores == {"python3.11", "python3.13"}

\* base64.b64decode of a str: the text is encoded as ASCII first, which
\* raises ValueError when any of its characters is outside ASCII, also
\* one the decoder would not reach; then binascii.a2b_base64 without
\* strict mode reads it one character at a time:
\*   q     number of characters of the current group already read
\*   pads  number of "=" read since the last character of the alphabet
\*   resto bits of the current group not yet written (value below 2^(2q))
\* Characters outside the alphabet are skipped.  "=" counts as padding when
\* the group holds two characters or more, and is skipped otherwise.  Under
\* Python 3.11 the padding that completes the group ends the data, and data
\* that ends inside a group raises binascii.Error.  Under Python 3.13 the
\* characters after the padding are read into the same group, and data
\* that ends inside a group raises unless the padding read last completes
\* the group.
RECURSIVE B64Passo(_, _, _, _, _, _)
B64Passo(py, s, q, pads, resto, saida) ==
    IF Len(saida) < 0 THEN [ok |-> FALSE, valor |-> <<>>]
    ELSE IF s = <<>>
    THEN IF q = 0 \/ (py = "python3.13" /\ q >= 2 /\ q + pads >= 4)
         THEN [ok |-> TRUE, valor |-> saida]
         ELSE [ok |-> FALSE, valor |-> <<>>]
    ELSE LET c == Head(s)
             v == B64Valor(c)
         IN IF c = B64_PAD
            THEN IF py = "python3.11" /\ q >= 2 /\ q + pads + 1 >= 4
                 THEN [ok |-> \A i \in 2..Len(s) : s[i] \in ASCII,
                       valor |-> IF \A i \in 2..Len(s) : s[i] \in ASCII
                                 THEN saida ELSE <<>>]
                 ELSE B64Passo(py, Tail(s), q,
                               IF q >= 2 THEN pads + 1 ELSE pads,
                               resto, saida)
            ELSE IF v = 64
            THEN IF c \notin ASCII THEN [ok |-> FALSE, valor |-> <<>>]
                 ELSE B64Passo(py, Tail(s), q, pads, resto, saida)
            ELSE IF q = 0 THEN B64Passo(py, Tail(s), 1, 0, v, saida)
            ELSE IF q = 1
            THEN B64Passo(py, Tail(s), 2, 0, v % 16,
                          Append(saida, resto * 4 + (v \div 16)))
            ELSE IF q = 2
            THEN B64Passo(py, Tail(s), 3, 0, v % 4,
                          Append(saida, resto * 16 + (v \div 4)))
            ELSE B64Passo(py, Tail(s), 0, 0, 0,
                          Append(saida, resto * 64 + v))

\* base64.b64decode(conteudo_b64) under the interpreter py
B64Decode(py, s) == B64Passo(py, s, 0, 0, 0, <<>>)

\* a decoding that takes the decoded bytes as text without decompressing
DecodificarSemGzip(py, conteudo_b64, engolida) ==
    IF conteudo_b64 = <<>> THEN [etapa |-> "ignorado", valor |-> <<>>]
    ELSE LET conteudo_bytes == B64Decode(py, conteudo_b64)
             plano == Utf8Decode(conteudo_bytes.valor)
         IN IF ~conteudo_bytes.ok THEN [etapa |-> "erro", valor |-> <<>>]
            ELSE IF plano.ok THEN [etapa |-> "plano", valor |-> plano.valor]
            ELSE [etapa |-> "erro", valor |-> <<>>]

\* the decoding step of the loop over docZip elements, under the
\* interpreter py: nothing is done for an empty text; the text is decoded
\* as base64, then decompressed and decoded as UTF-8, and when either
\* raises the bytes are decoded as UTF-8 as they are; an exception of
\* b64decode or of that last decode leaves the try block.  `engolida`
\* tells that a KeyboardInterrupt raised inside the inner try was caught
\* by its bare except, which decodes the bytes as they are as well
DecodificarDocZip(py, conteudo_b64, engolida) ==
    IF conteudo_b64 = <<>> THEN [etapa |-> "ignorado", valor |-> <<>>]
    ELSE LET conteudo_bytes == B64Decode(py, conteudo_b64)
             descomprimido == GzipDecompress(conteudo_bytes.valor)
             texto == Utf8Decode(descomprimido.valor)
             plano == Utf8Decode(conteudo_bytes.valor)
         IN IF ~conteudo_bytes.ok THEN [etapa |-> "erro", valor |-> <<>>]
            ELSE IF ~engolida /\ descomprimido.ok /\ texto.ok
            THEN [etapa |-> "gzip", valor |-> texto.valor]
            ELSE IF plano.ok THEN [etapa |-> "plano", valor |-> plano.valor]
            ELSE [etapa |-> "erro", valor |-> <<>>]

\* ------------------------------------------------------------------------
\* State of one invocation of consultar_notas_recebidas
\* ------------------------------------------------------------------------
VARIABLES
    pc,                 \* position of the handler
    cnpj_empresa,       \* inputs of the invocation
    data_inicio,
    data_fim,
    certificado,
    senha,
    estado,
    cnpj_limpo,         \* local variables of the handler
    chaves_encontradas,
    idx,                \* number of keys the lookup loop has processed
    notas_completas,
    total_erros,
    cert_file,          \* the two temporary files: "nao_criado", "existe",
    key_file,           \*   "removido"
    unlinks,            \* number of os.unlink calls made on each file
    requisicoes,        \* requests put on the wire, in order
    enumeracao,         \* how the enumeration phase ended
    lote,               \* elements received: docZips, malformed docZips
                        \*   and resNFe, keys read from them before
                        \*   duplicates are removed, and the two sequence
                        \*   numbers the response reported
    consultas,          \* per processed key: the key and how its lookup
                        \*   failed ("" when it did not)
    pendente,           \* what the try block is completing with
    outcome,            \* what the caller receives
    response_xml,       \* extrair_chaves_manifestacao called on its own:
    extraidas,          \*   the response it is given and the lists its
                        \*   successive calls returned
    doc_etapa,          \* the decoding step of one docZip on its own:
    doc_forma,          \*   "texto", "codificado", "decodificado"; whether
    doc_xml,            \*   the service compresses ("gzip", "plano"); the
    conteudo_b64,       \*   XML text it sends; the text of the docZip
    conteudo_xml,       \*   element; what the decoding step made of it;
    proximo_b64,        \*   the text of the docZip element that follows it
    proximo_xml,        \*   in the body and what the step made of that;
    python,             \*   the interpreter the step runs under; the
    interrompidos,      \*   places of the elements in whose inner try an
                        \*   interruption was caught by the bare except
    xml_content,        \* extrair_info_nfe called on its own: the document
    info_ns,            \*   it is given, what it returned for it, and what
    info_sem_ns         \*   it returned for the same document without the
                        \*   namespace declaration

vars == <<pc, cnpj_empresa, data_inicio, data_fim, certificado, senha, estado,
          cnpj_limpo, chaves_encontradas, idx, notas_completas, total_erros,
          cert_file, key_file, unlinks, requisicoes, enumeracao, lote,
          consultas, pendente, outcome, response_xml, extraidas,
          doc_etapa, doc_forma, doc_xml, conteudo_b64, conteudo_xml,
          proximo_b64, proximo_xml, python, interrompidos, xml_content,
          info_ns, info_sem_ns>>

entradas == <<cnpj_empresa, data_inicio, data_fim, certificado, senha, estado>>

locais == <<cnpj_limpo, chaves_encontradas, idx, notas_completas, total_erros>>

arquivos == <<cert_file, key_file, unlinks>>

historico == <<requisicoes, enumeracao, lote, consultas>>

codec == <<doc_etapa, doc_forma, doc_xml, conteudo_b64, conteudo_xml,
           proximo_b64, proximo_xml, python, interrompidos>>

info == <<xml_content, info_ns, info_sem_ns>>

funcoes == <<response_xml, extraidas, codec, info>>

handler == <<pc, entradas, locais, arquivos, historico, pendente, outcome>>

\* a result that reports no saved record, whatever the list holds
ResultadoSemSalvos(notas, consultado, erros) ==
    [success |-> TRUE, notas |-> notas, totalConsultado |-> consultado,
     totalErros |-> erros, totalSalvo |-> 0]

\* the dictionaries the handler returns
Resultado(notas, consultado, erros) ==
    [success |-> TRUE, notas |-> notas, totalConsultado |-> consultado,
     totalErros |-> erros, totalSalvo |-> Len(notas)]

SemResultado ==
    [success |-> FALSE, notas |-> <<>>, totalConsultado |-> 0,
     totalErros |-> 0, totalSalvo |-> 0]

Nenhum ==
    [tipo |-> "nenhum", status |-> 0, detail |-> "", causa |-> "",
     resultado |-> SemResultado]

Retorno(r) ==
    [tipo |-> "retorno", status |-> HTTP_OK, detail |-> "", causa |-> "",
     resultado |-> r]

STATUS_INVALIDO == 400

STATUS_INTERNO == 500

\* raise HTTPException(status_code=400, detail="CNPJ inválido")
CnpjInvalido ==
    [tipo |-> "HTTPException", status |-> STATUS_INVALIDO,
     detail |-> "CNPJ invalido", causa |-> "", resultado |-> SemResultado]

\* except Exception as e: raise HTTPException(500, f"Erro interno: {str(e)}")
ErroInterno(e) ==
    [tipo |-> "HTTPException", status |-> STATUS_INTERNO,
     detail |-> "Erro interno", causa |-> e, resultado |-> SemResultado]

\* an exception that `except Exception` does not catch leaves the handler
Propagada(e) ==
    [tipo |-> e, status |-> 0, detail |-> "", causa |-> e,
     resultado |-> SemResultado]

\* no docZip is being decoded on its own
CodecParado ==
    /\ doc_etapa = "parado"
    /\ doc_forma = "plano"
    /\ doc_xml = <<>>
    /\ conteudo_b64 = <<>>
    /\ conteudo_xml = [etapa |-> "nenhuma", valor |-> <<>>]
    /\ proximo_b64 = <<>>
    /\ proximo_xml = [etapa |-> "nenhuma", valor |-> <<>>]
    /\ python = "python3.11"
    /\ interrompidos = {}

\* a call of extrair_info_nfe that was not made
NaoChamada == [feita |-> FALSE, retorno |-> <<>>]

\* what a call of extrair_info_nfe gave: a list of length one, or the
\* empty list for None
Chamada(r) == [feita |-> TRUE, retorno |-> r]

\* extrair_info_nfe is not being called on its own
InfoParada ==
    /\ xml_content = RespostaConsulta("excecao", 0, FALSE, "nenhum", FALSE,
                                      "ausente", SemDhEmi)
    /\ info_ns = NaoChamada
    /\ info_sem_ns = NaoChamada

\* no function is being called on its own
FuncoesParadas ==
    /\ response_xml = RespostaDist("excecao", 0, FALSE, <<>>, <<>>, 0, 0)
    /\ extraidas = <<>>
    /\ CodecParado
    /\ InfoParada

Init ==
    /\ FuncoesParadas
    /\ pc = "validar"
    /\ cnpj_empresa \in CnpjInputs
    /\ data_inicio \in DatasInicio
    /\ data_fim \in DatasFim
    /\ certificado \in Certificados
    /\ senha \in Senhas
    /\ estado \in EstadosPara(cnpj_empresa)
    /\ cnpj_limpo = <<>>
    /\ chaves_encontradas = <<>>
    /\ idx = 0
    /\ notas_completas = <<>>
    /\ total_erros = 0
    /\ cert_file = "nao_criado"
    /\ key_file = "nao_criado"
    /\ unlinks = [cert |-> 0, key |-> 0]
    /\ requisicoes = <<>>
    /\ enumeracao = "nenhuma"
    /\ lote = [n |-> 0, m |-> 0, r |-> 0, brutas |-> 0,
               ultNSU |-> 0, maxNSU |-> 0]
    /\ consultas = <<>>
    /\ pendente = Nenhum
    /\ outcome = Nenhum

\* ------------------------------------------------------------------------
\* Steps of consultar_notas_recebidas
\* ------------------------------------------------------------------------
\* validation and cleaning of the identifier
Validar ==
    /\ pc = "validar"
    /\ IF CnpjRejeitado(cnpj_empresa)
       THEN /\ outcome' = CnpjInvalido
            /\ pc' = "done"
            /\ UNCHANGED cnpj_limpo
       ELSE /\ cnpj_limpo' = CnpjLimpo(cnpj_empresa)
            /\ pc' = "carregar"
            /\ UNCHANGED outcome
    /\ UNCHANGED <<entradas, chaves_encontradas, idx, notas_completas,
                   total_erros, arquivos, historico, pendente>>
    /\ UNCHANGED funcoes

\* a loader that opens the container whatever the password
ErroAoCarregarSemSenha(c, s) ==
    IF c = "b64_invalido" THEN "binascii.Error"
    ELSE IF c = "container_invalido" THEN "ValueError"
    ELSE ""

\* the exception base64.b64decode and pkcs12.load_key_and_certificates
\* raise for the container and password given, "" when they succeed
ErroAoCarregar(c, s) ==
    IF c = "b64_invalido" THEN "binascii.Error"
    ELSE IF c = "container_invalido" \/ s = "errada" THEN "ValueError"
    ELSE ""

\* decoding and opening the certificate container
CarregarCertificado ==
    /\ pc = "carregar"
    /\ IF ErroAoCarregar(certificado, senha) # ""
       THEN /\ outcome' = ErroInterno(ErroAoCarregar(certificado, senha))
            /\ pc' = "done"
       ELSE /\ pc' = "cert_file"
            /\ UNCHANGED outcome
    /\ UNCHANGED <<entradas, locais, arquivos, historico, pendente>>
    /\ UNCHANGED funcoes

\* what the file system does with a temporary file: it cannot be created,
\* it is created and the write fails, or it is created and written
EscritaInputs == {"erro_criar", "erro_escrever", "ok"}

\* with NamedTemporaryFile(suffix='.pem', delete=False) as cert_file: ...
\* load_key_and_certificates gives cert = None for a container without a
\* certificate and for one without a private key (its certificates are
\* then all additional ones), and cert.public_bytes raises AttributeError
SalvarCertificado ==
    /\ pc = "cert_file"
    /\ \E io \in EscritaInputs :
         IF io = "erro_criar"
         THEN /\ outcome' = ErroInterno("OSError")
              /\ pc' = "done"
              /\ UNCHANGED cert_file
         ELSE /\ cert_file' = "existe"
              /\ IF certificado \in {"sem_cert", "sem_chave"}
                 THEN outcome' = ErroInterno("AttributeError") /\ pc' = "done"
                 ELSE IF io = "erro_escrever"
                 THEN outcome' = ErroInterno("OSError") /\ pc' = "done"
                 ELSE pc' = "key_file" /\ UNCHANGED outcome
    /\ UNCHANGED <<entradas, locais, key_file, unlinks, historico, pendente>>
    /\ UNCHANGED funcoes

\* a key file opened with delete=True: it is removed when the with block ends
SalvarChaveDeleteTrue ==
    /\ pc = "key_file"
    /\ \E io \in EscritaInputs :
         IF io = "erro_criar"
         THEN /\ outcome' = ErroInterno("OSError")
              /\ pc' = "done"
              /\ UNCHANGED key_file
         ELSE /\ key_file' = "removido"
              /\ IF io = "erro_escrever"
                 THEN outcome' = ErroInterno("OSError") /\ pc' = "done"
                 ELSE pc' = "enumerar" /\ UNCHANGED outcome
    /\ UNCHANGED <<entradas, locais, cert_file, unlinks, historico, pendente>>
    /\ UNCHANGED funcoes

\* with NamedTemporaryFile(suffix='.key', delete=False) as key_file: ...
\* (private_key is not None here: without it the step before has raised)
SalvarChave ==
    /\ pc = "key_file"
    /\ \E io \in EscritaInputs :
         IF io = "erro_criar"
         THEN /\ outcome' = ErroInterno("OSError")
              /\ pc' = "done"
              /\ UNCHANGED key_file
         ELSE /\ key_file' = "existe"
              /\ IF io = "erro_escrever"
                 THEN outcome' = ErroInterno("OSError") /\ pc' = "done"
                 ELSE pc' = "enumerar" /\ UNCHANGED outcome
    /\ UNCHANGED <<entradas, locais, cert_file, unlinks, historico, pendente>>
    /\ UNCHANGED funcoes

\* how the enumeration phase ended, for a response of the service
FimDaEnumeracao(resp) ==
    IF resp.rede = "excecao" THEN "excecao_rede"
    ELSE IF resp.status # HTTP_OK THEN "http_erro"
    ELSE IF ~resp.xml_ok THEN "xml_invalido"
    ELSE "ok"

\* the number of docZip elements the loop gave up
ContarMalformados(dzs, engolidas) ==
    Cardinality({i \in 1..Len(dzs) :
                    DocZipMalformado(SemNsDepoisNs(dzs)[i], i \in engolidas)})

\* an empty result reported as a failure
ResultadoVazioSemSucesso ==
    [success |-> FALSE, notas |-> <<>>, totalConsultado |-> 0,
     totalErros |-> 0, totalSalvo |-> 0]

\* the dictionary returned when no key was found
ResultadoVazio ==
    [success |-> TRUE, notas |-> <<>>, totalConsultado |-> 0,
     totalErros |-> 0, totalSalvo |-> 0]

\* the statements after a call returned, up to the next call or to the
\* return statement: the try block returns the result when `retorna`
\* holds and goes on to the lookup of the next key otherwise, unless an
\* exception that is not an Exception (KeyboardInterrupt, SystemExit) is
\* raised before that, inside logger.info or while the result is built
Prosseguir(retorna, resultado) ==
    \E interrompido \in BOOLEAN :
        /\ pendente' = IF interrompido THEN Propagada("BaseException")
                       ELSE IF retorna THEN Retorno(resultado)
                       ELSE pendente
        /\ pc' = IF interrompido \/ retorna THEN "finally" ELSE "lookup"

\* the handler continues with the list of keys: it returns at once when the
\* list is empty, and starts the lookup loop otherwise
AposEnumerar(chaves) ==
    /\ chaves_encontradas' = chaves
    /\ notas_completas' = <<>>
    /\ total_erros' = 0
    /\ idx' = 0
    /\ Prosseguir(chaves = <<>>, ResultadoVazio)

\* what one call of consultar_manifestacao_destinatario leaves behind: how
\* the enumeration ended, what the response held and the list returned
Enumerado(resp, engolidas, chaves) ==
    [fim |-> FimDaEnumeracao(resp),
     lote |-> [n |-> Len(resp.docZips),
               m |-> ContarMalformados(resp.docZips, engolidas),
               r |-> Len(resp.resumos),
               brutas |-> Len(ChavesLidas(resp, engolidas)),
               ultNSU |-> resp.ultNSU,
               maxNSU |-> resp.maxNSU],
     chaves |-> chaves]

\* the same for every response of the service, every set of elements given
\* up because an interruption raised inside the inner try of the docZip
\* loop was caught there, and every order of the list
Enumeracoes ==
    UNION {UNION {{Enumerado(resp, engolidas, chaves) :
                      chaves \in consultar_manifestacao_destinatario(
                                     resp, engolidas)} :
                  engolidas \in SUBSET Engoliveis(resp)} :
           resp \in RespostasDist}

\* PASSO 1: the call of consultar_manifestacao_destinatario.  While the
\* response is read, an interruption raised inside the inner try of the
\* docZip loop is caught there: the call returns, with the elements given
\* up missing from the list, and the handler goes on
ConsultarManifestacao ==
    /\ pc = "enumerar"
    /\ IF ~DatasOk(python, data_inicio, data_fim)
       THEN /\ AposEnumerar(<<>>)
            /\ enumeracao' = "data_invalida"
            /\ UNCHANGED <<requisicoes, lote>>
       ELSE \E e \in Enumeracoes :
              /\ requisicoes' =
                   Append(requisicoes, PedidoDist(cnpj_limpo, estado))
              /\ enumeracao' = e.fim
              /\ lote' = e.lote
              /\ AposEnumerar(e.chaves)
    /\ UNCHANGED <<entradas, cnpj_limpo, arquivos, consultas, outcome>>
    /\ UNCHANGED funcoes

\* how the lookup of one key failed, read off the response of the service:
\* no response, a status other than 200, no document element found in it,
\* a document whose total value is not a number; "" when none of these
TipoDeFalha(resp) ==
    IF resp.rede = "excecao" THEN "rede"
    ELSE IF resp.status # HTTP_OK THEN "http"
    ELSE IF ~resp.xml_ok \/ ~resp.ns \/ resp.elem \notin {"nfeProc", "NFe"}
    THEN "sem_nfe"
    ELSE IF resp.vNF \in {"vazio", "nao_numerico"} THEN "extracao"
    ELSE ""

\* a loop that sends the lookup request again when it got no answer or an
\* answer with a status other than 200
BaixarXmlComNovaTentativa ==
    /\ pc = "lookup"
    /\ idx < Len(chaves_encontradas)
    /\ \E resp \in RespostasConsulta :
         LET chave == chaves_encontradas[idx + 1]
             xml_completo == consultar_nfe_por_chave(resp)
             info_nota == IF xml_completo # "None"
                          THEN extrair_info_nfe(resp, chave) ELSE <<>>
             notas == notas_completas \o info_nota
             erros == IF info_nota = <<>> THEN total_erros + 1
                      ELSE total_erros
             pedidos == IF TipoDeFalha(resp) \in {"rede", "http"}
                        THEN <<PedidoConsulta(chave, estado),
                               PedidoConsulta(chave, estado)>>
                        ELSE <<PedidoConsulta(chave, estado)>>
         IN /\ requisicoes' = requisicoes \o pedidos
            /\ consultas' = Append(consultas, [chave |-> chave,
                                               falha |-> TipoDeFalha(resp)])
            /\ notas_completas' = notas
            /\ total_erros' = erros
            /\ idx' = idx + 1
            /\ Prosseguir(idx + 1 = Len(chaves_encontradas),
                          Resultado(notas, Len(chaves_encontradas), erros))
    /\ UNCHANGED <<entradas, cnpj_limpo, chaves_encontradas, arquivos,
                   enumeracao, lote, outcome>>
    /\ UNCHANGED funcoes

\* a loop that returns at the first document it cannot extract
BaixarXmlAteFalhaDeExtracao ==
    /\ pc = "lookup"
    /\ idx < Len(chaves_encontradas)
    /\ \E resp \in RespostasConsulta :
         LET chave == chaves_encontradas[idx + 1]
             xml_completo == consultar_nfe_por_chave(resp)
             info_nota == IF xml_completo # "None"
                          THEN extrair_info_nfe(resp, chave) ELSE <<>>
             notas == notas_completas \o info_nota
             erros == IF info_nota = <<>> THEN total_erros + 1
                      ELSE total_erros
         IN /\ requisicoes' =
                 Append(requisicoes, PedidoConsulta(chave, estado))
            /\ consultas' = Append(consultas, [chave |-> chave,
                                               falha |-> TipoDeFalha(resp)])
            /\ notas_completas' = notas
            /\ total_erros' = erros
            /\ idx' = idx + 1
            /\ Prosseguir(\/ idx + 1 = Len(chaves_encontradas)
                          \/ xml_completo # "None" /\ info_nota = <<>>,
                          Resultado(notas, Len(chaves_encontradas), erros))
    /\ UNCHANGED <<entradas, cnpj_limpo, chaves_encontradas, arquivos,
                   enumeracao, lote, outcome>>
    /\ UNCHANGED funcoes

\* a loop that never takes the next key (a `while` over an index that is
\* not advanced): the first key is looked up again and again and the
\* return statement is never reached.  The lookups are followed until
\* there is one more of them than there are keys
BaixarXmlSemAvanco ==
    /\ pc = "lookup"
    /\ idx < Len(chaves_encontradas)
    /\ Len(consultas) <= Len(chaves_encontradas)
    /\ \E resp \in RespostasConsulta :
         LET chave == chaves_encontradas[idx + 1]
             xml_completo == consultar_nfe_por_chave(resp)
             info_nota == IF xml_completo # "None"
                          THEN extrair_info_nfe(resp, chave) ELSE <<>>
             notas == notas_completas \o info_nota
             erros == IF info_nota = <<>> THEN total_erros + 1
                      ELSE total_erros
         IN /\ requisicoes' =
                 Append(requisicoes, PedidoConsulta(chave, estado))
            /\ consultas' = Append(consultas, [chave |-> chave,
                                               falha |-> TipoDeFalha(resp)])
            /\ notas_completas' = notas
            /\ total_erros' = erros
            /\ idx' = idx
            /\ Prosseguir(FALSE,
                          Resultado(notas, Len(chaves_encontradas), erros))
    /\ UNCHANGED <<entradas, cnpj_limpo, chaves_encontradas, arquivos,
                   enumeracao, lote, outcome>>
    /\ UNCHANGED funcoes

\* PASSO 2: one iteration of the loop over chaves_encontradas; the return
\* statement follows the last iteration
BaixarXml ==
    /\ pc = "lookup"
    /\ idx < Len(chaves_encontradas)
    /\ \E resp \in RespostasConsulta :
         LET chave == chaves_encontradas[idx + 1]
             xml_completo == consultar_nfe_por_chave(resp)
             info_nota == IF xml_completo # "None"
                          THEN extrair_info_nfe(resp, chave) ELSE <<>>
             notas == notas_completas \o info_nota
             erros == IF info_nota = <<>> THEN total_erros + 1
                      ELSE total_erros
         IN /\ requisicoes' =
                 Append(requisicoes, PedidoConsulta(chave, estado))
            /\ consultas' = Append(consultas, [chave |-> chave,
                                               falha |-> TipoDeFalha(resp)])
            /\ notas_completas' = notas
            /\ total_erros' = erros
            /\ idx' = idx + 1
            /\ Prosseguir(idx + 1 = Len(chaves_encontradas),
                          Resultado(notas, Len(chaves_encontradas), erros))
    /\ UNCHANGED <<entradas, cnpj_limpo, chaves_encontradas, arquivos,
                   enumeracao, lote, outcome>>
    /\ UNCHANGED funcoes

\* an exception that is not an Exception (KeyboardInterrupt, SystemExit)
\* is raised before the try block is entered: it leaves the handler, and
\* the file being written, when it was already created, stays
InterromperAntesDoTry ==
    /\ pc \in {"validar", "carregar", "cert_file", "key_file"}
    /\ \E criado \in BOOLEAN :
         /\ cert_file' = IF pc = "cert_file" /\ criado THEN "existe"
                         ELSE cert_file
         /\ key_file' = IF pc = "key_file" /\ criado THEN "existe"
                        ELSE key_file
    /\ outcome' = Propagada("BaseException")
    /\ pc' = "done"
    /\ UNCHANGED <<entradas, locais, unlinks, historico, pendente>>
    /\ UNCHANGED funcoes

\* the same exception raised while the try block runs, between two
\* statements or inside requests.post after the request was sent: the
\* request the handler was waiting on is then on the wire.  No except
\* clause on its way catches it (each is `except Exception` or narrower),
\* the inner try of the docZip loop apart: an interruption raised there is
\* part of ConsultarManifestacao
Interromper ==
    /\ pc \in {"enumerar", "lookup"}
    /\ \E enviado \in BOOLEAN :
         /\ enviado => IF pc = "lookup" THEN idx < Len(chaves_encontradas)
                       ELSE DatasOk(python, data_inicio, data_fim)
         /\ requisicoes' =
               IF ~enviado THEN requisicoes
               ELSE IF pc = "enumerar"
               THEN Append(requisicoes, PedidoDist(cnpj_limpo, estado))
               ELSE Append(requisicoes,
                           PedidoConsulta(chaves_encontradas[idx + 1], estado))
    /\ pendente' = Propagada("BaseException")
    /\ pc' = "finally"
    /\ UNCHANGED <<entradas, locais, arquivos, enumeracao, lote, consultas,
                   outcome>>
    /\ UNCHANGED funcoes

\* what os.unlink does: it removes the file, it raises and the file stays
\* (no permission), or it raises because the file is already gone
UnlinkInputs == {"ok", "permissao", "inexistente"}

Apos(unlink, arquivo) == IF unlink = "permissao" THEN arquivo ELSE "removido"

\* finally: try: os.unlink(cert_path); os.unlink(key_path) except: pass
\* os.unlink(key_path) is called when os.unlink(cert_path) has returned.
\* It is skipped when that call raised, and also when an interruption
\* arrived while the call ran: the interpreter raises it once the call has
\* returned, inside the try, and the bare except catches it like the rest
Finally ==
    /\ pc = "finally"
    /\ \E uc \in UnlinkInputs :
         /\ cert_file' = Apos(uc, cert_file)
         /\ \/ /\ uc = "ok"
               /\ \E uk \in UnlinkInputs : key_file' = Apos(uk, key_file)
               /\ unlinks' = [cert |-> unlinks.cert + 1,
                              key |-> unlinks.key + 1]
            \/ /\ UNCHANGED key_file
               /\ unlinks' = [unlinks EXCEPT !.cert = @ + 1]
    /\ outcome' = pendente
    /\ pc' = "done"
    /\ UNCHANGED <<entradas, locais, historico, pendente>>
    /\ UNCHANGED funcoes

Next ==
    \/ Validar
    \/ CarregarCertificado
    \/ SalvarCertificado
    \/ SalvarChave
    \/ ConsultarManifestacao
    \/ BaixarXml
    \/ InterromperAntesDoTry
    \/ Interromper
    \/ Finally

Spec == Init /\ [][Next]_vars

\* the steps the handler takes by itself: every statement runs to its end,
\* and requests.post returns or raises within its timeout of 30 seconds
PassoDoHandler ==
    \/ Validar
    \/ CarregarCertificado
    \/ SalvarCertificado
    \/ SalvarChave
    \/ ConsultarManifestacao
    \/ BaixarXml
    \/ Finally

\* the identifiers of the invocations followed to their end: none, one the
\* validation rejects and one it accepts
CnpjInputsJusta == {<<>>, DigitosBase(CNPJ_LEN - 1), Formatado}

InitJusta ==
    /\ Init
    /\ cnpj_empresa \in CnpjInputsJusta
    /\ estado = ESTADO_PADRAO

\* an interruption may never come; the steps of the handler do
SpecJusta == InitJusta /\ [][Next]_vars /\ WF_vars(PassoDoHandler)

\* ------------------------------------------------------------------------
\* extrair_chaves_manifestacao called twice on the same response body
\* ------------------------------------------------------------------------
\* the handler is not running
HandlerParado ==
    /\ pc = "done"
    /\ cnpj_empresa = <<>>
    /\ data_inicio = DataIso1
    /\ data_fim = DataIso2
    /\ certificado = "ok"
    /\ senha = "certa"
    /\ estado = ESTADO_PADRAO
    /\ cnpj_limpo = <<>>
    /\ chaves_encontradas = <<>>
    /\ idx = 0
    /\ notas_completas = <<>>
    /\ total_erros = 0
    /\ cert_file = "nao_criado"
    /\ key_file = "nao_criado"
    /\ unlinks = [cert |-> 0, key |-> 0]
    /\ requisicoes = <<>>
    /\ enumeracao = "nenhuma"
    /\ lote = [n |-> 0, m |-> 0, r |-> 0, brutas |-> 0,
               ultNSU |-> 0, maxNSU |-> 0]
    /\ consultas = <<>>
    /\ pendente = Nenhum
    /\ outcome = Nenhum

\* the bodies of the responses that reach the function (status 200)
CorposDeResposta ==
    {resp \in RespostasDist : resp.rede = "resposta" /\ resp.status = HTTP_OK}

InitExtrair ==
    /\ HandlerParado
    /\ CodecParado
    /\ InfoParada
    /\ response_xml \in CorposDeResposta
    /\ extraidas = <<>>

\* one call of extrair_chaves_manifestacao(response_xml).  The order of
\* list(set(chaves)) follows the hashes of the strings, which depend on the
\* hash seed the serving process drew at its start: each call returns one
\* of the orderings.  An interruption caught by the bare except of the
\* docZip loop makes the call give up the element it was decoding
Extrair ==
    /\ Len(extraidas) < NumChamadas
    /\ \E engolidas \in SUBSET Engoliveis(response_xml) :
         \E chaves \in extrair_chaves_manifestacao(response_xml, engolidas) :
           extraidas' = Append(extraidas, chaves)
    /\ UNCHANGED <<response_xml, handler, codec, info>>

NextExtrair == Extrair

SpecExtrair == InitExtrair /\ [][NextExtrair]_vars

\* ------------------------------------------------------------------------
\* The decoding step applied to the content the service puts in a docZip
\* ------------------------------------------------------------------------
\* what the service puts in the element: the text in UTF-8, compressed or
\* not; a compressed member cut short; the text in Windows-1252, compressed
\* or not; the base64 text of the plain document twice over; the text
\* compressed into a Huffman block
FormasDeEnvio ==
    {"gzip", "plano", "gzip_truncado", "cp1252", "gzip_cp1252",
     "plano_repetido", "gzip_huffman", "plano_nao_ascii"}

\* str.encode('cp1252') on the characters of the model
Cp1252Encode(t) == [i \in 1..Len(t) |-> IF t[i] = 8364 THEN 128 ELSE t[i]]

\* the bytes the service encodes as base64
BytesEnviados(forma, t) ==
    IF forma = "gzip" THEN GzipCompress(Utf8Encode(t))
    ELSE IF forma \in {"plano", "plano_repetido", "plano_nao_ascii"}
    THEN Utf8Encode(t)
    ELSE IF forma = "gzip_truncado"
    THEN SubSeq(GzipCompress(Utf8Encode(t)), 1,
                Len(GzipCompress(Utf8Encode(t))) - 1)
    ELSE IF forma = "cp1252" THEN Cp1252Encode(t)
    ELSE IF forma = "gzip_huffman"
    THEN GZIP_CABECALHO \o DeflateFixo(Utf8Encode(t)) \o Crc32(Utf8Encode(t))
         \o QuatroBytes(Len(Utf8Encode(t)))
    ELSE GzipCompress(Cp1252Encode(t))

InitDocZip ==
    /\ HandlerParado
    /\ InfoParada
    /\ response_xml = RespostaDist("excecao", 0, FALSE, <<>>, <<>>, 0, 0)
    /\ extraidas = <<>>
    /\ doc_etapa = "texto"
    /\ doc_forma \in FormasDeEnvio
    /\ doc_xml \in TextosXml
    /\ conteudo_b64 = <<>>
    /\ conteudo_xml = [etapa |-> "nenhuma", valor |-> <<>>]
    /\ proximo_b64 = <<>>
    /\ proximo_xml = [etapa |-> "nenhuma", valor |-> <<>>]
    /\ python \in Interpretadores
    /\ interrompidos = {}

\* the service encodes the document: UTF-8, gzip when it compresses,
\* base64; the element text holds the base64 text, the same twice, or
\* followed by a character outside ASCII
CodificarDocZip ==
    /\ doc_etapa = "texto"
    /\ conteudo_b64' =
          IF doc_forma = "plano_repetido"
          THEN B64Encode(BytesEnviados(doc_forma, doc_xml))
               \o B64Encode(BytesEnviados(doc_forma, doc_xml))
          ELSE IF doc_forma = "plano_nao_ascii"
          THEN Append(B64Encode(BytesEnviados(doc_forma, doc_xml)), "U+00E9")
          ELSE B64Encode(BytesEnviados(doc_forma, doc_xml))
    /\ doc_etapa' = "codificado"
    /\ UNCHANGED <<doc_forma, doc_xml, conteudo_xml, proximo_b64, proximo_xml,
                   python, interrompidos, response_xml, extraidas, handler,
                   info>>

\* the loop body of extrair_chaves_manifestacao decodes the element text;
\* no signal arrives meanwhile
DecodificarConteudo ==
    /\ doc_etapa = "codificado"
    /\ conteudo_xml' = DecodificarDocZip(python, conteudo_b64, FALSE)
    /\ doc_etapa' = "decodificado"
    /\ UNCHANGED <<doc_forma, doc_xml, conteudo_b64, proximo_b64, proximo_xml,
                   python, interrompidos, response_xml, extraidas, handler,
                   info>>

NextDocZip == CodificarDocZip \/ DecodificarConteudo

SpecDocZip == InitDocZip /\ [][NextDocZip]_vars

\* ------------------------------------------------------------------------
\* The docZip loop of extrair_chaves_manifestacao over a body of two
\* elements, on the bytes they hold
\* ------------------------------------------------------------------------
\* the texts of the second element: a compressed and a plain document
ProximosDocZips ==
    {B64Encode(GzipCompress(Utf8Encode(<<60, 97>>))),
     B64Encode(Utf8Encode(<<97>>))}

\* the first element holds what the service made of a text, of one
\* character less than the codec is given on its own, the second one of
\* the two documents
InitLote ==
    /\ HandlerParado
    /\ InfoParada
    /\ response_xml = RespostaDist("excecao", 0, FALSE, <<>>, <<>>, 0, 0)
    /\ extraidas = <<>>
    /\ doc_etapa = "texto"
    /\ doc_forma \in FormasDeEnvio
    /\ doc_xml \in SeqsAte(Caracteres, MaxTexto - 1)
    /\ conteudo_b64 = <<>>
    /\ conteudo_xml = [etapa |-> "nenhuma", valor |-> <<>>]
    /\ proximo_b64 \in ProximosDocZips
    /\ proximo_xml = [etapa |-> "nenhuma", valor |-> <<>>]
    /\ python \in Interpretadores
    /\ interrompidos = {}

\* the first turn of `for doc_zip in doc_zips`: the element text is
\* decoded inside the try statement of the loop body.  An interruption
\* raised inside the inner try, which is entered once b64decode has
\* returned, is caught by its bare except; whatever the turn raises then
\* is caught by `except Exception` and the loop takes the next element
ProcessarConteudo ==
    /\ doc_etapa = "codificado"
    /\ \E engolida \in BOOLEAN :
         /\ engolida => /\ conteudo_b64 # <<>>
                        /\ B64Decode(python, conteudo_b64).ok
         /\ conteudo_xml' = DecodificarDocZip(python, conteudo_b64, engolida)
         /\ interrompidos' = IF engolida THEN interrompidos \cup {1}
                             ELSE interrompidos
    /\ doc_etapa' = "decodificado"
    /\ UNCHANGED <<doc_forma, doc_xml, conteudo_b64, proximo_b64, proximo_xml,
                   python, response_xml, extraidas, handler, info>>

\* a loop inside the try statement, instead of a try statement inside the
\* loop: the first element that raises ends the loop
ProcessarProximoAteErro ==
    /\ doc_etapa = "decodificado"
    /\ \E engolida \in BOOLEAN :
         /\ engolida => /\ conteudo_xml.etapa # "erro"
                        /\ B64Decode(python, proximo_b64).ok
         /\ proximo_xml' =
               IF conteudo_xml.etapa = "erro" THEN proximo_xml
               ELSE DecodificarDocZip(python, proximo_b64, engolida)
         /\ interrompidos' = IF engolida THEN interrompidos \cup {2}
                             ELSE interrompidos
    /\ doc_etapa' = "fim"
    /\ UNCHANGED <<doc_forma, doc_xml, conteudo_b64, conteudo_xml, proximo_b64,
                   python, response_xml, extraidas, handler, info>>

\* the second turn of the loop, whatever became of the first
ProcessarProximo ==
    /\ doc_etapa = "decodificado"
    /\ \E engolida \in BOOLEAN :
         /\ engolida => /\ proximo_b64 # <<>>
                        /\ B64Decode(python, proximo_b64).ok
         /\ proximo_xml' = DecodificarDocZip(python, proximo_b64, engolida)
         /\ interrompidos' = IF engolida THEN interrompidos \cup {2}
                             ELSE interrompidos
    /\ doc_etapa' = "fim"
    /\ UNCHANGED <<doc_forma, doc_xml, conteudo_b64, conteudo_xml, proximo_b64,
                   python, response_xml, extraidas, handler, info>>

NextLote == CodificarDocZip \/ ProcessarConteudo \/ ProcessarProximo

SpecLote == InitLote /\ [][NextLote]_vars

\* ------------------------------------------------------------------------
\* The handler of src/app_final.py: the same steps as in src/app.py, with
\* its own consultar_manifestacao_destinatario and consultar_nfe_por_chave
\* ------------------------------------------------------------------------
\* the identifier the enumeration compares with: "58521876000163"
CNPJ_SIMULADO ==
    <<"5", "8", "5", "2", "1", "8", "7", "6", "0", "0", "0", "1", "6", "3">>

\* the same identifier under the usual mask
CnpjSimuladoFormatado ==
    SubSeq(CNPJ_SIMULADO, 1, 2) \o <<".">> \o SubSeq(CNPJ_SIMULADO, 3, 5) \o
    <<".">> \o SubSeq(CNPJ_SIMULADO, 6, 8) \o <<"/">> \o
    SubSeq(CNPJ_SIMULADO, 9, 12) \o <<"-">> \o SubSeq(CNPJ_SIMULADO, 13, 14)

\* the text looked for in data_inicio: "2025-09"
MES_SIMULADO == <<"2", "0", "2", "5", "-", "0", "9">>

\* the key both functions have written in them
CHAVE_SIMULADA == "42250914309992000148550010040830921915351968"

\* `sub in s` of two str values
Contem(s, sub) ==
    \E i \in 0..(Len(s) - Len(sub)) : SubSeq(s, i + 1, i + Len(sub)) = sub

\* the list the function returns; it builds the envelope and the headers of
\* a request and sends nothing
consultar_manifestacao_destinatario_final(cnpj, di) ==
    IF cnpj = CNPJ_SIMULADO /\ Contem(di, MES_SIMULADO)
    THEN <<CHAVE_SIMULADA>>
    ELSE <<>>

DataSimulada == <<"2", "0", "2", "5", "-", "0", "9", "-", "0", "2">>

\* the document written in consultar_nfe_por_chave: an nfeProc in the fiscal
\* namespace with dhEmi 2025-09-02T22:01:34-03:00 and vNF 1250.50
XmlSimulado ==
    RespostaConsulta("simulada", 0, TRUE, "nfeProc", TRUE, "numero",
                     [data |-> DataSimulada, hora |-> "T22:01:34-03:00"])

\* the document returned for a key, as a list of length one, or the empty
\* list for None; nothing is sent
consultar_nfe_por_chave_final(chave) ==
    IF chave = CHAVE_SIMULADA THEN <<XmlSimulado>> ELSE <<>>

\* extrair_info_nfe of src/app_final.py: it reads no nNF and returns no
\* 'numero'
extrair_info_nfe_final(resp, chave) ==
    IF ~resp.xml_ok THEN <<>>
    ELSE IF ~resp.ns
    THEN <<[chave |-> chave, dataEmissao |-> SemDhEmi, fornecedorCNPJ |-> "",
            fornecedorNome |-> "", valorTotal |-> "ausente",
            xmlContent |-> resp.elem]>>
    ELSE IF resp.vNF \in {"vazio", "nao_numerico"} THEN <<>>
    ELSE <<[chave |-> chave, dataEmissao |-> resp.dhEmi,
            fornecedorCNPJ |-> resp.emitCNPJ, fornecedorNome |-> resp.xNome,
            valorTotal |-> resp.vNF, xmlContent |-> resp.elem]>>

CnpjInputsFinal ==
    {<<>>, CNPJ_SIMULADO, CnpjSimuladoFormatado, Formatado,
     DigitosBase(CNPJ_LEN), DigitosBase(CNPJ_LEN - 1)}

InitFinal ==
    /\ FuncoesParadas
    /\ pc = "validar"
    /\ cnpj_empresa \in CnpjInputsFinal
    /\ data_inicio \in DatasInicio \cup {DataIso3}
    /\ data_fim \in DatasFim
    /\ certificado \in Certificados
    /\ senha \in Senhas
    /\ estado \in Estados
    /\ cnpj_limpo = <<>>
    /\ chaves_encontradas = <<>>
    /\ idx = 0
    /\ notas_completas = <<>>
    /\ total_erros = 0
    /\ cert_file = "nao_criado"
    /\ key_file = "nao_criado"
    /\ unlinks = [cert |-> 0, key |-> 0]
    /\ requisicoes = <<>>
    /\ enumeracao = "nenhuma"
    /\ lote = [n |-> 0, m |-> 0, r |-> 0, brutas |-> 0,
               ultNSU |-> 0, maxNSU |-> 0]
    /\ consultas = <<>>
    /\ pendente = Nenhum
    /\ outcome = Nenhum

\* an interruption while the try block of src/app_final.py runs: no
\* request is on the wire
InterromperFinal ==
    /\ pc \in {"enumerar", "lookup"}
    /\ pendente' = Propagada("BaseException")
    /\ pc' = "finally"
    /\ UNCHANGED <<entradas, locais, arquivos, historico, outcome>>
    /\ UNCHANGED funcoes

\* PASSO 1 in src/app_final.py
ConsultarManifestacaoFinal ==
    /\ pc = "enumerar"
    /\ LET chaves ==
             consultar_manifestacao_destinatario_final(cnpj_limpo, data_inicio)
       IN /\ enumeracao' = IF chaves = <<>> THEN "sem_consulta"
                           ELSE "simulada"
          /\ AposEnumerar(chaves)
    /\ UNCHANGED <<entradas, cnpj_limpo, arquivos, requisicoes, lote,
                   consultas, outcome>>
    /\ UNCHANGED funcoes

\* PASSO 2 in src/app_final.py: one iteration of the loop
BaixarXmlFinal ==
    /\ pc = "lookup"
    /\ idx < Len(chaves_encontradas)
    /\ LET chave == chaves_encontradas[idx + 1]
           xml_completo == consultar_nfe_por_chave_final(chave)
           info_nota == IF xml_completo # <<>>
                        THEN extrair_info_nfe_final(xml_completo[1], chave)
                        ELSE <<>>
           notas == notas_completas \o info_nota
           erros == IF info_nota = <<>> THEN total_erros + 1
                    ELSE total_erros
       IN /\ consultas' =
               Append(consultas,
                      [chave |-> chave,
                       falha |-> IF info_nota = <<>> THEN "sem_nfe" ELSE ""])
          /\ notas_completas' = notas
          /\ total_erros' = erros
          /\ idx' = idx + 1
          /\ Prosseguir(idx + 1 = Len(chaves_encontradas),
                        Resultado(notas, Len(chaves_encontradas), erros))
    /\ UNCHANGED <<entradas, cnpj_limpo, chaves_encontradas, arquivos,
                   requisicoes, enumeracao, lote, outcome>>
    /\ UNCHANGED funcoes

NextFinal ==
    \/ Validar
    \/ CarregarCertificado
    \/ SalvarCertificado
    \/ SalvarChave
    \/ ConsultarManifestacaoFinal
    \/ BaixarXmlFinal
    \/ InterromperAntesDoTry
    \/ InterromperFinal
    \/ Finally

SpecFinal == InitFinal /\ [][NextFinal]_vars

\* ------------------------------------------------------------------------
\* extrair_info_nfe called on a document and on the same document without
\* its namespace declaration
\* ------------------------------------------------------------------------
\* the texts given to the function: documents in the fiscal namespace with
\* each content of vNF and of dhEmi, and texts that are not well-formed
Documentos ==
    {RespostaConsulta("resposta", HTTP_OK, ok, e, TRUE, v, d) :
        ok \in BOOLEAN, e \in {"nfeProc", "NFe"},
        v \in {"ausente", "numero", "vazio", "nao_numerico"},
        d \in {SemDhEmi, DhEmiFimDoDia, DhEmiDiaSeguinte}}

\* the same text with xmlns="http://www.portalfiscal.inf.br/nfe" removed
SemNamespace(doc) == [doc EXCEPT !.ns = FALSE]

InitInfo ==
    /\ HandlerParado
    /\ response_xml = RespostaDist("excecao", 0, FALSE, <<>>, <<>>, 0, 0)
    /\ extraidas = <<>>
    /\ CodecParado
    /\ xml_content \in Documentos
    /\ info_ns = NaoChamada
    /\ info_sem_ns = NaoChamada

\* extrair_info_nfe(xml_content, chave) on the document as it is
ExtrairInfoNs ==
    /\ ~info_ns.feita
    /\ \E chave \in Chaves :
         info_ns' = Chamada(extrair_info_nfe(xml_content, chave))
    /\ UNCHANGED <<xml_content, info_sem_ns, response_xml, extraidas, codec,
                   handler>>

\* extrair_info_nfe(xml_content, chave) on the document without namespace
ExtrairInfoSemNs ==
    /\ ~info_sem_ns.feita
    /\ \E chave \in Chaves :
         info_sem_ns' =
             Chamada(extrair_info_nfe(SemNamespace(xml_content), chave))
    /\ UNCHANGED <<xml_content, info_ns, response_xml, extraidas, codec,
                   handler>>

NextInfo == ExtrairInfoNs \/ ExtrairInfoSemNs

SpecInfo == InitInfo /\ [][NextInfo]_vars

\* ------------------------------------------------------------------------
\* Properties
\* ------------------------------------------------------------------------
\* the text reduces to exactly 14 digits once the punctuation is stripped
ReduzA14Digitos(s) ==
    LET r == SelectSeq(s, LAMBDA x : x \notin Pontuacao)
    IN Len(r) = CNPJ_LEN /\ TodosDigitos(r)

\* the digits of a text, in order
SoDigitos(s) == SelectSeq(s, LAMBDA x : x \in Digitos)

\* the requests of one kind, in the order they were issued
PedidosDoTipo(t) == SelectSeq(requisicoes, LAMBDA r : r.tipo = t)

\* C1: when the invocation has returned or raised, neither the temporary
\* certificate file nor the temporary key file exists, whatever the exit path
C1_SemArquivosAoSair ==
    pc = "done" => cert_file # "existe" /\ key_file # "existe"

\* C2: when the invocation has ended and the key file was created, the key
\* file was released by exactly one deletion, on every exit path
C2_ChaveLiberadaUmaVez ==
    (pc = "done" /\ key_file # "nao_criado") => unlinks.key = 1

\* C3: a request is on the wire only after the identifier passed validation
\* and the certificate container was opened with its password; a rejected
\* identifier and a container that does not open end with no request issued,
\* in the credential error unless the process was interrupted before it
C3_RedeSoDepoisDeAutenticar ==
    /\ requisicoes # <<>> =>
          /\ Len(CnpjLimpo(cnpj_empresa)) = CNPJ_LEN
          /\ certificado \notin {"b64_invalido", "container_invalido"}
          /\ senha = "certa"
          /\ pc \notin {"validar", "carregar", "cert_file", "key_file"}
    /\ (pc = "done" /\ outcome = CnpjInvalido) => requisicoes = <<>>
    /\ (pc = "done" /\ (senha = "errada" \/
                        certificado \in {"b64_invalido", "container_invalido"}))
          => /\ requisicoes = <<>>
             /\ outcome.tipo = "HTTPException" \/ outcome = Propagada("BaseException")

C3_Witness ==
    /\ pc = "done"
    /\ Len(requisicoes) = 3
    /\ requisicoes[1].tipo = "dist"
    /\ outcome.tipo = "retorno"

\* C4: an identifier that does not reduce to exactly 14 digits is rejected
\* with the input-validation error before the certificate is decoded, a
\* temporary file is created or a request is issued
C4_RejeitaSemCatorzeDigitos ==
    (~ReduzA14Digitos(cnpj_empresa) /\ pc # "validar") =>
        /\ pc = "done"
        /\ outcome = CnpjInvalido
        /\ requisicoes = <<>>
        /\ cert_file = "nao_criado" /\ key_file = "nao_criado"

\* C5: for an identifier made of 14 digits and punctuation at any positions,
\* the identifier is accepted, the cleaned identifier is its 14 digits in
\* their order, and that is the CNPJ the enumeration request carries; only
\* an invocation interrupted before the cleaning ends without it
C5_LimpoSaoOsCatorzeDigitos ==
    (ReduzA14Digitos(cnpj_empresa) /\ pc # "validar") =>
        /\ outcome # CnpjInvalido
        /\ \/ cnpj_limpo = SoDigitos(cnpj_empresa) /\ Len(cnpj_limpo) = CNPJ_LEN
           \/ /\ pc = "done" /\ outcome = Propagada("BaseException")
              /\ cnpj_limpo = <<>> /\ requisicoes = <<>>
              /\ cert_file = "nao_criado" /\ key_file = "nao_criado"
        /\ \A i \in 1..Len(requisicoes) :
              requisicoes[i].tipo = "dist" =>
                  requisicoes[i].CNPJ = SoDigitos(cnpj_empresa)

C5_Witness ==
    /\ ReduzA14Digitos(cnpj_empresa)
    /\ Len(cnpj_empresa) > CNPJ_LEN
    /\ cnpj_empresa[Len(cnpj_empresa)] \in Pontuacao
    /\ PedidosDoTipo("dist") # <<>>
    /\ pc = "done"

\* C6: a password that does not open the container ends the invocation with
\* no request issued and with a credential error that differs from the
\* outcome of an unexpected internal error
C6_SenhaErradaDistinguivel ==
    (pc = "done" /\ senha = "errada" /\ certificado = "ok"
        /\ ~CnpjRejeitado(cnpj_empresa)) =>
        /\ requisicoes = <<>>
        /\ outcome.tipo = "HTTPException"
        /\ <<outcome.status, outcome.detail>> # <<STATUS_INTERNO, "Erro interno">>

\* the keys of the processed lookups that failed, and those that did not
ChavesComFalha == SelectSeq(consultas, LAMBDA c : c.falha # "")

ChavesSemFalha == SelectSeq(consultas, LAMBDA c : c.falha = "")

\* the lookup requests sent beyond the lookups that were processed: one when
\* the process was interrupted with a request on the wire, none otherwise
PedidosEmVoo == Len(PedidosDoTipo("consulta")) - idx

\* C7: the lookup loop issues one lookup per enumerated key, in order (the
\* only request without a processed lookup is the one an interruption of the
\* process cut short); each key whose lookup failed adds one to the error
\* count and each other key adds one record; the result is built only after
\* every key was looked up
C7_UmaFalhaNaoAbortaAsDemais ==
    /\ Len(consultas) = idx
    /\ PedidosEmVoo \in {0, 1}
    /\ PedidosEmVoo = 1 =>
          Propagada("BaseException") \in {pendente, outcome}
    /\ \A i \in 1..idx : consultas[i].chave = chaves_encontradas[i]
    /\ \A i \in 1..Len(PedidosDoTipo("consulta")) :
          PedidosDoTipo("consulta")[i].chNFe = chaves_encontradas[i]
    /\ total_erros = Len(ChavesComFalha)
    /\ Len(notas_completas) = Len(ChavesSemFalha)
    /\ \A i \in 1..Len(notas_completas) :
          notas_completas[i].chave = ChavesSemFalha[i].chave
    /\ (pendente.tipo = "retorno" /\ chaves_encontradas # <<>>) =>
          /\ idx = Len(chaves_encontradas)
          /\ pendente.resultado.totalErros = Len(ChavesComFalha)
          /\ pendente.resultado.notas = notas_completas

C7_Witness ==
    /\ pc = "done"
    /\ outcome.tipo = "retorno"
    /\ Len(chaves_encontradas) = 2
    /\ consultas[1].falha # ""
    /\ consultas[2].falha = ""
    /\ outcome.resultado.totalErros = 1
    /\ Len(outcome.resultado.notas) = 1

\* C8: when the enumeration response held N docZip entries of which M were
\* malformed, the result reports M errors and N - M records
C8_MalformadosContados ==
    (pc = "done" /\ outcome.tipo = "retorno" /\ enumeracao = "ok") =>
        /\ outcome.resultado.success
        /\ outcome.resultado.totalErros = lote.m
        /\ Len(outcome.resultado.notas) = lote.n - lote.m

\* C9: when the enumeration request failed (no response, a status other
\* than 200, a body that does not parse) no further request is issued and
\* the result handed to the caller is tagged as unsuccessful
C9_FalhaDeEnumeracaoSemSucesso ==
    (pc = "done" /\ outcome.tipo = "retorno"
        /\ enumeracao \in {"excecao_rede", "http_erro", "xml_invalido"}) =>
        /\ Len(requisicoes) = 1
        /\ ~outcome.resultado.success

\* C10: a successful enumeration response with no docZip and no resNFe
\* entry gives a successful result with no record and all three counters
\* at zero, and the enumeration request is the only request issued
C10_PrimeiraPaginaVazia ==
    (pc = "done" /\ outcome.tipo = "retorno" /\ enumeracao = "ok"
        /\ lote.n = 0 /\ lote.r = 0) =>
        /\ outcome.resultado.success
        /\ outcome.resultado.notas = <<>>
        /\ outcome.resultado.totalConsultado = 0
        /\ outcome.resultado.totalErros = 0
        /\ outcome.resultado.totalSalvo = 0
        /\ Len(requisicoes) = 1
        /\ PedidosDoTipo("consulta") = <<>>

C10_Witness ==
    /\ pc = "done"
    /\ outcome.tipo = "retorno"
    /\ enumeracao = "ok"
    /\ lote.n = 0 /\ lote.r = 0
    /\ cert_file = "removido" /\ key_file = "removido"

\* C11: when the enumeration response says that the service holds documents
\* beyond the batch (maxNSU above ultNSU), the invocation does not end
\* before a further enumeration request was issued with the cursor advanced
\* to the last sequence number of the batch plus one
C11_CursorAvancaEnquantoHaMais ==
    (pc = "done" /\ outcome.tipo = "retorno" /\ enumeracao = "ok"
        /\ lote.maxNSU > lote.ultNSU) =>
        /\ Len(PedidosDoTipo("dist")) >= 2
        /\ PedidosDoTipo("dist")[2].NSU = lote.ultNSU + 1

\* C12: the first enumeration request of the invocation carries sequence
\* number 0, and each enumeration request carries a sequence number that
\* is not below the one of the enumeration request before it; the handler
\* sends one enumeration request at most, so that no enumeration request
\* of the invocation carries another number than 0
C12_NsuComecaEmZeroENaoDecresce ==
    /\ PedidosDoTipo("dist") # <<>> => PedidosDoTipo("dist")[1].NSU = 0
    /\ Len(PedidosDoTipo("dist")) <= 1
    /\ \A i \in 1..Len(requisicoes) :
          requisicoes[i].tipo = "dist" => requisicoes[i].NSU = 0
    /\ \A i \in 1..Len(PedidosDoTipo("dist")) :
          \A j \in i..Len(PedidosDoTipo("dist")) :
              PedidosDoTipo("dist")[i].NSU <= PedidosDoTipo("dist")[j].NSU

\* the service holds more than the batch, and the request that was sent
\* is the only one
C12_Witness ==
    /\ pc = "done"
    /\ outcome.tipo = "retorno"
    /\ PedidosDoTipo("dist") = <<PedidoDist(cnpj_limpo, estado)>>
    /\ lote.maxNSU > lote.ultNSU
    /\ Len(outcome.resultado.notas) >= 1

\* C13: the records collected by the lookup loop, and the records of the
\* result handed to the caller, carry pairwise distinct keys, also when the
\* enumeration response named the same key in several elements
C13_ChavesDistintasEmNotas ==
    /\ \A i, j \in 1..Len(notas_completas) :
          i # j => notas_completas[i].chave # notas_completas[j].chave
    /\ \A i, j \in 1..Len(outcome.resultado.notas) :
          i # j => outcome.resultado.notas[i].chave
                     # outcome.resultado.notas[j].chave

C13_Witness ==
    /\ pc = "done"
    /\ outcome.tipo = "retorno"
    /\ lote.brutas = 3
    /\ Len(chaves_encontradas) = 2
    /\ Len(outcome.resultado.notas) = 2

\* the first occurrence of each element of a list, in the order of the list
RECURSIVE PrimeirasOcorrencias(_)
PrimeirasOcorrencias(s) ==
    IF s = <<>> THEN <<>>
    ELSE LET resto == PrimeirasOcorrencias(SubSeq(s, 1, Len(s) - 1))
         IN IF s[Len(s)] \in Range(resto) THEN resto
            ELSE Append(resto, s[Len(s)])

\* C14: the list of keys returned for a response body holds each key once,
\* at the place of its first occurrence: the keys are in the order in which
\* they were first read from the body
C14_PrimeiraOcorrenciaEmOrdem ==
    \A i \in 1..Len(extraidas) :
        response_xml.xml_ok =>
            extraidas[i] =
                PrimeirasOcorrencias(ChavesBrutas(response_xml, {}))

\* C15: two calls of the extraction on the same response body return the
\* same list of keys, in the same order
C15_DuasChamadasMesmoResultado ==
    Len(extraidas) = NumChamadas => extraidas[1] = extraidas[2]

\* the day a YYYY-MM-DD text names, as a number that grows with the day
ValorDaData(s) ==
    IF ~StrptimeOk(python, s) THEN 0
    ELSE LET i == CHOOSE k \in 1..Len(s) :
                      s[k] = "-" /\ \A l \in 1..(k - 1) : s[l] # "-"
             j == CHOOSE k \in (i + 1)..Len(s) :
                      s[k] = "-" /\ \A l \in (i + 1)..(k - 1) : s[l] # "-"
         IN 10000 * Numero(SubSeq(s, 1, i - 1))
            + 100 * Numero(SubSeq(s, i + 1, j - 1))
            + Numero(SubSeq(s, j + 1, Len(s)))

\* C16: every record of the result handed to the caller has an emission
\* timestamp whose calendar date is on or after data_inicio and on or
\* before data_fim
C16_NotasDentroDoIntervalo ==
    (pc = "done" /\ outcome.tipo = "retorno") =>
        \A i \in 1..Len(outcome.resultado.notas) :
            LET d == outcome.resultado.notas[i].dataEmissao.data
            IN /\ StrptimeOk(python, d)
               /\ ValorDaData(data_inicio) <= ValorDaData(d)
               /\ ValorDaData(d) <= ValorDaData(data_fim)

\* C17: in every result handed to the caller, totalConsultado is the number
\* of keys the enumeration produced, totalErros is the number of docZip
\* entries that failed to decode plus the number of keys whose lookup or
\* extraction failed, and totalSalvo is the number of records in 'notas'
C17_ContadoresDoResultado ==
    (pc = "done" /\ outcome.tipo = "retorno") =>
        /\ outcome.resultado.totalConsultado = Len(chaves_encontradas)
        /\ outcome.resultado.totalErros = lote.m + Len(ChavesComFalha)
        /\ outcome.resultado.totalSalvo = Len(outcome.resultado.notas)

\* the text is a date written YYYY-MM-DD: ten characters, four digits of
\* year, two of month, two of day, and the date exists
FormatoAnoMesDia(s) ==
    /\ Len(s) = 10
    /\ s[5] = "-" /\ s[8] = "-"
    /\ StrptimeOk(python, s)

\* C18: an invocation whose start date or end date is not written
\* YYYY-MM-DD ends with an error outcome, never with a returned result,
\* and puts no request on the wire
C18_DataInvalidaRejeitada ==
    (pc = "done" /\ (~FormatoAnoMesDia(data_inicio)
                        \/ ~FormatoAnoMesDia(data_fim))) =>
        /\ outcome.tipo # "retorno"
        /\ requisicoes = <<>>

\* C19: for every XML text, the text encoded as UTF-8, compressed with
\* gzip and encoded as base64, then given to the decoding step of the
\* docZip loop, comes back as the same text
C19_IdaEVoltaDoDocZip ==
    (doc_etapa = "decodificado" /\ doc_forma \in {"gzip", "gzip_huffman"}) =>
        /\ conteudo_xml.etapa \notin {"erro", "ignorado"}
        /\ conteudo_xml.valor = doc_xml

C19_Witness ==
    /\ doc_etapa = "decodificado"
    /\ doc_forma = "gzip"
    /\ Len(doc_xml) >= 2
    /\ \E i \in 1..Len(doc_xml) : doc_xml[i] >= 128
    /\ conteudo_b64[1] = "H"
    /\ conteudo_xml.etapa = "gzip"
    /\ conteudo_xml.valor = doc_xml

\* the regions that have endpoints of their own; every other code is
\* served by the national environment
RegioesComEndpoint == {"SP"}

FamiliaEsperada(uf) == IF uf \in RegioesComEndpoint THEN uf ELSE "AN"

\* the region family an address belongs to
FamiliaDoUrl(url) ==
    IF url \in {URL_DIST_SP, URL_CONS_SP} THEN "SP"
    ELSE IF url \in {URL_DIST_AN, URL_CONS_AN} THEN "AN"
    ELSE "desconhecida"

\* C20: the enumeration request goes to the distribution endpoint and
\* every lookup request to the protocol endpoint of the region of the
\* invocation when that region has endpoints, and of the national
\* environment otherwise; all requests of one invocation go to one family
C20_EndpointsDaRegiao ==
    /\ \A i \in 1..Len(requisicoes) :
          /\ FamiliaDoUrl(requisicoes[i].url) = FamiliaEsperada(estado)
          /\ requisicoes[i].tipo = "dist" =>
                requisicoes[i].url \in {URL_DIST_SP, URL_DIST_AN}
          /\ requisicoes[i].tipo = "consulta" =>
                requisicoes[i].url \in {URL_CONS_SP, URL_CONS_AN}
    /\ \A i, j \in 1..Len(requisicoes) :
          FamiliaDoUrl(requisicoes[i].url) = FamiliaDoUrl(requisicoes[j].url)

C20_Witness ==
    /\ pc = "done"
    /\ estado = "SP"
    /\ Len(PedidosDoTipo("dist")) = 1
    /\ Len(PedidosDoTipo("consulta")) = 2
    /\ \A i \in 1..Len(requisicoes) : FamiliaDoUrl(requisicoes[i].url) = "SP"

\* ------------------------------------------------------------------------
\* C21  Every record of a returned result comes from a response received
\* in the same invocation: the result holds no record unless an enumeration
\* request was issued, and each record's key was asked for in a lookup
\* request.
\* ------------------------------------------------------------------------
C21_RegistrosVemDaRede ==
    outcome.tipo = "retorno" =>
        \A i \in 1..Len(outcome.resultado.notas) :
            /\ Len(PedidosDoTipo("dist")) >= 1
            /\ \E j \in 1..Len(requisicoes) :
                   /\ requisicoes[j].tipo = "consulta"
                   /\ requisicoes[j].chNFe = outcome.resultado.notas[i].chave

\* ------------------------------------------------------------------------
\* C22  Every docZip of the body whose content decodes to a well-formed
\* document holding a chNFe element with text, in the fiscal namespace or
\* in none, has that text in the list of keys the extraction returns.
\* ------------------------------------------------------------------------
DocZipComChave(dz) ==
    /\ dz.b64 = "ok"
    /\ dz.bytes \in {"gzip", "plano"}
    /\ dz.xml = "ok"
    /\ dz.onde \in {"nfe", "sem_ns", "sem_ns_filhos"}
    /\ dz.texto # ""

C22_ChaveDeCadaDocZip ==
    \A i \in 1..Len(extraidas) :
        \A j \in 1..Len(response_xml.docZips) :
            DocZipComChave(response_xml.docZips[j]) =>
                response_xml.docZips[j].texto \in Range(extraidas[i])

\* ------------------------------------------------------------------------
\* C23  extrair_info_nfe returns the same emission date, issuer identifier,
\* issuer name, document number and total value for a document declared in
\* the fiscal namespace and for the same document without namespace.
\* ------------------------------------------------------------------------
CamposDaNota(r) ==
    IF r = <<>> THEN <<>>
    ELSE <<[dataEmissao |-> r[1].dataEmissao,
            fornecedorCNPJ |-> r[1].fornecedorCNPJ,
            fornecedorNome |-> r[1].fornecedorNome,
            numero |-> r[1].numero,
            valorTotal |-> r[1].valorTotal]>>

C23_MesmosCamposSemNamespace ==
    info_ns.feita /\ info_sem_ns.feita =>
        CamposDaNota(info_ns.retorno) = CamposDaNota(info_sem_ns.retorno)

\* ------------------------------------------------------------------------
\* C24  In the loop over the docZip elements of a body: when the bytes
\* decoded from an element are not valid gzip data and are valid UTF-8,
\* the turn takes them as text and goes on with that text; the element is
\* given up only when its text is not base64, when neither the
\* decompressed bytes nor the bytes themselves are valid UTF-8, or when an
\* interruption of the process was caught while it was being decompressed
\* and its bytes are not valid UTF-8; and the element that follows gets
\* its turn and is read from its own bytes, also after an element that was
\* given up.
\* ------------------------------------------------------------------------
C24_RecursoATextoPlano ==
    /\ doc_etapa \in {"decodificado", "fim"} =>
          LET conteudo_bytes == B64Decode(python, conteudo_b64)
              descomprimido == GzipDecompress(conteudo_bytes.valor)
              texto == Utf8Decode(descomprimido.valor)
              plano == Utf8Decode(conteudo_bytes.valor)
          IN /\ (conteudo_bytes.ok /\ ~descomprimido.ok /\ plano.ok) =>
                    conteudo_xml = [etapa |-> "plano", valor |-> plano.valor]
             /\ conteudo_xml.etapa = "erro" <=>
                    \/ ~conteudo_bytes.ok
                    \/ ~(descomprimido.ok /\ texto.ok) /\ ~plano.ok
                    \/ 1 \in interrompidos /\ ~plano.ok
    /\ doc_etapa = "fim" =>
          LET comprimido == B64Encode(GzipCompress(Utf8Encode(<<60, 97>>)))
          IN IF proximo_b64 # comprimido
             THEN proximo_xml = [etapa |-> "plano", valor |-> <<97>>]
             ELSE IF 2 \in interrompidos
             THEN proximo_xml = [etapa |-> "erro", valor |-> <<>>]
             ELSE proximo_xml = [etapa |-> "gzip", valor |-> <<60, 97>>]

\* the first element was given up for what its bytes are, and the second,
\* whose bytes are not gzip data, was taken as text
C24_Witness ==
    /\ doc_etapa = "fim"
    /\ doc_forma = "gzip_cp1252"
    /\ interrompidos = {}
    /\ conteudo_xml.etapa = "erro"
    /\ ~GzipDecompress(B64Decode(python, proximo_b64).valor).ok
    /\ proximo_xml = [etapa |-> "plano", valor |-> <<97>>]

\* ------------------------------------------------------------------------
\* C25  extrair_info_nfe returns None for a text that is not well-formed
\* XML and for a document whose total value cannot be converted; the key of
\* such a document gets no record and adds one to the error count, the
\* handler does not fail, and the keys after it are still looked up.
\* ------------------------------------------------------------------------
\* the function on its own: None for every text that is not well-formed
\* and for every document whose vNF is empty or not a number
InfoNulaSemConversao ==
    \A d \in Documentos :
        (~d.xml_ok \/ d.vNF \in {"vazio", "nao_numerico"}) =>
            \A k \in Chaves : extrair_info_nfe(d, k) = <<>>

C25_ExtracaoNulaContaUmErro ==
    /\ \A i \in 1..Len(consultas) :
          consultas[i].falha = "extracao" =>
              /\ \A j \in 1..Len(notas_completas) :
                     notas_completas[j].chave # consultas[i].chave
              /\ outcome.tipo # "HTTPException"
    /\ total_erros = Len(ChavesComFalha)
    /\ (pc = "done" /\ outcome.tipo = "retorno"
        /\ chaves_encontradas # <<>>) =>
          /\ Len(consultas) = Len(chaves_encontradas)
          /\ outcome.resultado.totalErros = Len(ChavesComFalha)
    /\ InfoNulaSemConversao

C25_Witness ==
    /\ pc = "done"
    /\ outcome.tipo = "retorno"
    /\ Len(chaves_encontradas) = 2
    /\ consultas[1].falha = "extracao"
    /\ consultas[2].falha = ""
    /\ outcome.resultado.totalErros = 1
    /\ Len(outcome.resultado.notas) = 1
    /\ outcome.resultado.notas[1].chave = chaves_encontradas[2]

\* ------------------------------------------------------------------------
\* C26  No request is sent twice: at most one enumeration request is sent
\* (the handler fetches one page), one lookup request is sent for each key
\* taken from the list, the number of requests is at most one plus the
\* number of enumerated keys, and when the result is returned every
\* enumerated key was asked for exactly once, failed requests included; a
\* request without a processed lookup exists only when the process was
\* interrupted while it was on the wire, and it is not sent again.
\* ------------------------------------------------------------------------
PedidosDaChave(k) ==
    SelectSeq(requisicoes, LAMBDA r : r.tipo = "consulta" /\ r.chNFe = k)

C26_NenhumPedidoRepetido ==
    /\ Len(PedidosDoTipo("dist")) <= 1
    /\ Len(PedidosDoTipo("consulta")) \in {idx, idx + 1}
    /\ Len(PedidosDoTipo("consulta")) = idx + 1 =>
          /\ Propagada("BaseException") \in {pendente, outcome}
          /\ pc \in {"finally", "done"}
    /\ Len(requisicoes) <= 1 + Len(chaves_encontradas)
    /\ \A i, j \in 1..Len(requisicoes) :
          i # j => requisicoes[i] # requisicoes[j]
    /\ \A i \in 1..Len(consultas) :
          Len(PedidosDaChave(consultas[i].chave)) = 1
    /\ (pc = "done" /\ outcome.tipo = "retorno") =>
          \A i \in 1..Len(chaves_encontradas) :
              Len(PedidosDaChave(chaves_encontradas[i])) = 1

\* two keys were looked up, the first lookup was refused by the service,
\* and three requests were sent in all
C26_Witness ==
    /\ pc = "done"
    /\ outcome.tipo = "retorno"
    /\ Len(chaves_encontradas) = 2
    /\ consultas[1].falha = "http"
    /\ consultas[2].falha = "rede"
    /\ Len(requisicoes) = 3
    /\ requisicoes[1].tipo = "dist"

\* ------------------------------------------------------------------------
\* C27  Every invocation ends: the handler eventually returns a result or
\* raises an error, and does not stay in the enumeration or in the lookup
\* loop forever.
\* ------------------------------------------------------------------------
C27_TodaSessaoTermina ==
    <>(pc = "done" /\ outcome.tipo \in {"retorno", "HTTPException",
                                         "BaseException"})

\* an invocation that went through the lookup loop and returned
C27_Witness ==
    /\ pc = "done"
    /\ outcome.tipo = "retorno"
    /\ Len(consultas) = 2
    /\ Len(requisicoes) = 3
    /\ unlinks.cert = 1

\* ------------------------------------------------------------------------
\* C28  A request is issued only while both temporary files exist and
\* before any os.unlink was called on them; the files are deleted in the
\* step that ends the invocation, after which no request is issued.
\* ------------------------------------------------------------------------
C28_SemUsoAposLiberar ==
    [][/\ requisicoes' # requisicoes =>
            /\ cert_file = "existe" /\ key_file = "existe"
            /\ unlinks = [cert |-> 0, key |-> 0]
            /\ UNCHANGED <<cert_file, key_file, unlinks>>
       /\ unlinks' # unlinks =>
            /\ pc' = "done"
            /\ requisicoes' = requisicoes
       /\ pc = "done" => requisicoes' = requisicoes]_vars

\* requests were issued and both files were deleted afterwards
C28_Witness ==
    /\ pc = "done"
    /\ Len(PedidosDoTipo("consulta")) = 2
    /\ cert_file = "removido"
    /\ key_file = "removido"
    /\ unlinks = [cert |-> 1, key |-> 1]

\* ------------------------------------------------------------------------
\* C29  In every result the handler returns, totalConsultado equals
\* totalErros plus totalSalvo: while the loop runs each key taken from the
\* list has given either one record or one error.
\* ------------------------------------------------------------------------
C29_ConservacaoDosContadores ==
    /\ total_erros + Len(notas_completas) = idx
    /\ \A r \in {pendente, outcome} :
          r.tipo = "retorno" =>
              /\ r.resultado.totalConsultado =
                     r.resultado.totalErros + r.resultado.totalSalvo
              /\ r.resultado.totalSalvo = Len(r.resultado.notas)
              /\ r.resultado.totalConsultado = Len(chaves_encontradas)

\* two keys, a record for the first and no document found for the second
C29_Witness ==
    /\ pc = "done"
    /\ outcome.tipo = "retorno"
    /\ outcome.resultado.totalConsultado = 2
    /\ outcome.resultado.totalErros = 1
    /\ outcome.resultado.totalSalvo = 1
    /\ consultas[1].falha = ""
    /\ consultas[2].falha = "sem_nfe"

====
